---- MODULE Spec2Model ----
(***************************************************************************)
(* A model of miutils: the lexical splitter, the extractor thread pool,    *)
(* the in-order executor and the main state machine that drives them.      *)
(*                                                                         *)
(* Every critical section of the code (the statements a thread runs while  *)
(* it holds one mutex) is one action.  A condition variable is the set of  *)
(* threads asleep on it: cv.wait(lck, pred) sleeps only when pred is       *)
(* false, a notify removes sleepers from the set, and a woken thread       *)
(* re-evaluates pred under the lock.                                       *)
(***************************************************************************)
EXTENDS Integers, Sequences, FiniteSets, TLC

\* ------------------------------------------------------------------ bounds

\* Largest value of g_thread_num (-j) explored.
MaxThreads == 2

\* Largest number of records the input stream yields.
MaxRecords == 3

\* extractor.cpp:107 reads HIGH_WATRE_MARK, the mark parameters.hpp:15
\* declares as FULL_WATRE_MARK = 128; LOW_WATER_MARK is 8 at :27.  The model
\* scales the two down, keeping 0 < LOW_WATER_MARK < HIGH_WATRE_MARK.
HIGH_WATRE_MARK == 2

LOW_WATER_MARK == 1

\* The --reorder argument (microseconds) handed to ReorderWindow.
OooTolerance == 2

\* macros.hpp:5 sets XMM_WIDTH to 16, the bytes of a chunk of the
\* accelerated path; the model scales it down.
XMM_WIDTH == 2

\* BufReader::BUFF_SIZE is 16384 (splitter.cpp:78); the model scales it
\* down, keeping it larger than the files of the runs that do not vary it.
BUFF_SIZE == 7

Workers == 1..MaxThreads

\* ------------------------------------------------------- records and trees

\* A record as the extractor sees it.  wf: pt::read_xml accepts the text;
\* paths: the tree has dm_log_packet and keyed pairs, so tree accesses do
\* not throw; type_id and rawtime: the values of the type_id pair and of
\* the converted timestamp pair (-1: the timestamp does not scan);
\* pdu1412: a PDU of size 1412 is present; sink_ok: the side effects of
\* the record's closure succeed.
Rec(wf, paths, type_id, rawtime, pdu1412, sink_ok) ==
    [wf |-> wf, paths |-> paths, type_id |-> type_id, rawtime |-> rawtime,
     pdu1412 |-> pdu1412, sink_ok |-> sink_ok]

\* The records the pipeline specification feeds: two well-formed packets
\* with different timestamps, a malformed one, and one whose closure throws.
PipelineRecords ==
    { Rec(TRUE, TRUE, "other", 4, FALSE, TRUE),
      Rec(TRUE, TRUE, "other", 1, FALSE, TRUE),
      Rec(FALSE, FALSE, "other", -1, FALSE, TRUE),
      Rec(TRUE, TRUE, "other", 1, FALSE, FALSE) }

PipelineModes == {"dedup", "reorder"}

\* ------------------------------------------------------------- action list

ExtractorTypes(name) ==
    CASE name = "rrc_ota" -> {"LTE_RRC_OTA_Packet"}
      [] name = "rrc_serv_cell_info" -> {"LTE_RRC_Serv_Cell_Info"}
      [] name = "pdcp_cipher_data_pdu" ->
            {"LTE_PDCP_UL_Cipher_Data_PDU", "LTE_PDCP_DL_Cipher_Data_PDU"}
      [] name = "action_pdcp_cipher_data_pdu" ->
            {"LTE_PDCP_UL_Cipher_Data_PDU", "LTE_PDCP_DL_Cipher_Data_PDU"}
      [] name = "nas_emm_ota_incoming" -> {"LTE_NAS_EMM_OTA_Incoming_Packet"}
      [] name = "nas_emm_ota_outgoing" -> {"LTE_NAS_EMM_OTA_Outgoing_Packet"}
      [] name = "mac_rach_attempt" -> {"LTE_MAC_Rach_Attempt"}
      [] name = "mac_rach_trigger" -> {"LTE_MAC_Rach_Trigger"}
      [] name = "phy_pdsch_stat" -> {"LTE_PHY_PDSCH_Stat_Indication"}
      [] name = "phy_pdsch" -> {"LTE_PHY_PDSCH_Packet"}
      [] name = "phy_serv_cell_meas" -> {"LTE_PHY_Serv_Cell_Measurement"}
      [] name = "rlc_dl_am_all_pdu" -> {"LTE_RLC_DL_AM_All_PDU"}
      [] name = "rlc_ul_am_all_pdu" -> {"LTE_RLC_UL_AM_All_PDU"}
      [] name = "rlc_dl_config_log" -> {"LTE_RLC_DL_Config_Log_Packet"}
      [] name = "rlc_ul_config_log" -> {"LTE_RLC_UL_Config_Log_Packet"}
      [] OTHER -> {}

ExtractorNames ==
    {"rrc_ota", "rrc_serv_cell_info", "pdcp_cipher_data_pdu",
     "action_pdcp_cipher_data_pdu", "nas_emm_ota_incoming",
     "nas_emm_ota_outgoing", "mac_rach_attempt", "mac_rach_trigger",
     "phy_pdsch_stat", "phy_pdsch", "phy_serv_cell_meas",
     "rlc_dl_am_all_pdu", "rlc_ul_am_all_pdu", "rlc_dl_config_log",
     "rlc_ul_config_log", "all_packet_type"}

\* One ConditionalAction: types = {} stands for the predicate `return true`.
ConditionalAction(always, types, action) ==
    [always |-> always, types |-> types, action |-> action]

\* The pair one enabled extractor name pushes, <<>> for an unknown name.
ExtractorPair(name) ==
    IF name = "all_packet_type"
    THEN << ConditionalAction(TRUE, {}, "extract_packet_type") >>
    ELSE IF name \in ExtractorNames
    THEN << ConditionalAction(FALSE, ExtractorTypes(name), name) >>
    ELSE << >>

RECURSIVE EnabledPairs(_)
EnabledPairs(enabled) ==
    IF enabled = << >> THEN << >>
    ELSE ExtractorPair(Head(enabled)) \o EnabledPairs(Tail(enabled))

\* A list that would end with the last enabled extractor's pair.
initialize_action_list_without_nop(enabled) == EnabledPairs(enabled)

initialize_action_list_with_extractors(enabled) ==
    EnabledPairs(enabled) \o << ConditionalAction(TRUE, {}, "nop") >>

initialize_action_list_with_range ==
    << ConditionalAction(TRUE, {}, "echo_packet_within_time_range") >>

initialize_action_list_to_dedup ==
    << ConditionalAction(TRUE, {}, "echo_packet_if_new") >>

initialize_action_list_to_reorder ==
    << ConditionalAction(TRUE, {}, "update_reorder_window") >>

initialize_action_list_to_filter ==
    << ConditionalAction(TRUE, {}, "echo_packet_if_match") >>

\* The list HOW TO ADD A NEW ACTION describes, built around print_timestamp,
\* the example action its step 4 names.  No option of parse_option builds it.
initialize_action_list_with_example ==
    << ConditionalAction(TRUE, {}, "print_timestamp") >>

\* parse_option: the action list of a mode.  No option of parse_option
\* calls initialize_action_list_to_filter; "example" is no option either.
ActionListOf(m, enabled) ==
    CASE m = "extract" -> initialize_action_list_with_extractors(enabled)
      [] m = "example" -> initialize_action_list_with_example
      [] m = "range" -> initialize_action_list_with_range
      [] m = "dedup" -> initialize_action_list_to_dedup
      [] m = "reorder" -> initialize_action_list_to_reorder

\* A predicate of the list: `return true`, or is_packet_having_type, which
\* reads dm_log_packet through get_packet_type and throws ptree_bad_path
\* when the tree has none.
predicate_throws(ca, tree) == ~ca.always /\ ~tree.paths

predicate(ca, tree) == ca.always \/ tree.type_id \in ca.types

\* ---------------------------------------------------------------- actions

OrderedTask(seq_num, op, tree) ==
    [seq_num |-> seq_num,
     func |-> [op |-> op, content |-> seq_num, rawtime |-> tree.rawtime,
               sink_ok |-> tree.sink_ok]]

\* What an action function does with (tree, job): the OrderedTasks it hands
\* to insert_ordered_task, in order, and whether it leaves by an exception.
Submits(tasks) == [tasks |-> tasks, thrown |-> "none"]

Throws(what) == [tasks |-> << >>, thrown |-> what]

update_pdcp_cipher_data_pdu_packet_timestamp(tree, job_num) ==
    IF ~tree.paths THEN Throws("ptree_bad_path")
    ELSE IF tree.type_id \notin
              {"LTE_PDCP_UL_Cipher_Data_PDU", "LTE_PDCP_DL_Cipher_Data_PDU"}
    THEN Throws("ProgramBug")
    ELSE IF tree.pdu1412
    THEN Submits(<< OrderedTask(job_num, "update_last_pdcp", tree) >>)
    ELSE Submits(<< OrderedTask(job_num, "nop", tree) >>)

\* An echo_packet_if_new that would submit nothing for an old timestamp.
echo_packet_if_new_silent(tree, job_num) ==
    IF tree.rawtime <= 1 THEN [tasks |-> << >>, thrown |-> "none"]
    ELSE [tasks |-> << [seq_num |-> job_num,
                        func |-> [op |-> "echo_if_new", content |-> job_num,
                                  rawtime |-> tree.rawtime,
                                  sink_ok |-> tree.sink_ok]] >>,
          thrown |-> "none"]

echo_packet_if_new(tree, job_num) ==
    IF ~tree.paths THEN Throws("ptree_bad_path")
    ELSE IF tree.rawtime = -1
    THEN Submits(<< OrderedTask(job_num, "warn", tree) >>)
    ELSE Submits(<< OrderedTask(job_num, "echo_if_new", tree) >>)

update_reorder_window(tree, job_num) ==
    IF ~tree.paths THEN Throws("ptree_bad_path")
    ELSE IF tree.rawtime = -1
    THEN Submits(<< OrderedTask(job_num, "warn", tree) >>)
    ELSE Submits(<< OrderedTask(job_num, "window_update", tree) >>)

echo_packet_within_time_range(tree, job_num) ==
    IF ~tree.paths THEN Throws("ptree_bad_path")
    ELSE IF tree.rawtime = -1
    THEN Submits(<< OrderedTask(job_num, "warn", tree) >>)
    ELSE Submits(<< OrderedTask(job_num, "echo_in_range", tree) >>)

echo_packet_if_match(tree, job_num) ==
    IF ~tree.paths THEN Throws("ptree_bad_path")
    ELSE Submits(<< OrderedTask(job_num, "echo_if_match", tree) >>)

\* extract_packet_type and the fourteen per-type extractors: each reads
\* the tree and ends in one insert_ordered_task(job.job_num, ...).
extract_packet(tree, job_num) ==
    IF ~tree.paths THEN Throws("ptree_bad_path")
    ELSE Submits(<< OrderedTask(job_num, "print", tree) >>)

nop_action(tree, job_num) == Submits(<< OrderedTask(job_num, "nop", tree) >>)

\* print_timestamp: one insert_ordered_task for the first pair with key
\* timestamp, none when dm_log_packet has no such pair.  A tree without
\* the pair is one of those whose timestamp does not scan (rawtime -1,
\* get_packet_time_stamp gives "timestamp N/A" for it).
print_timestamp(tree, job_num) ==
    IF ~tree.paths THEN Throws("ptree_bad_path")
    ELSE IF tree.rawtime = -1 THEN Submits(<< >>)
    ELSE Submits(<< OrderedTask(job_num, "print", tree) >>)

action(ca, tree, job_num) ==
    CASE ca.action = "nop" -> nop_action(tree, job_num)
      [] ca.action = "echo_packet_if_new" -> echo_packet_if_new(tree, job_num)
      [] ca.action = "update_reorder_window" ->
            update_reorder_window(tree, job_num)
      [] ca.action = "echo_packet_within_time_range" ->
            echo_packet_within_time_range(tree, job_num)
      [] ca.action = "echo_packet_if_match" ->
            echo_packet_if_match(tree, job_num)
      [] ca.action = "action_pdcp_cipher_data_pdu" ->
            update_pdcp_cipher_data_pdu_packet_timestamp(tree, job_num)
      [] ca.action = "print_timestamp" -> print_timestamp(tree, job_num)
      [] OTHER -> extract_packet(tree, job_num)

\* A scan that would go on through the list after a match.
RECURSIVE ScanWholeActionList(_, _, _)
ScanWholeActionList(list, tree, i) ==
    IF i > Len(list) THEN [pairs |-> << >>, thrown |-> "none"]
    ELSE IF predicate_throws(list[i], tree)
    THEN [pairs |-> << >>, thrown |-> "ptree_bad_path"]
    ELSE LET rest == ScanWholeActionList(list, tree, i + 1)
         IN IF predicate(list[i], tree)
            THEN [pairs |-> << i >> \o rest.pairs, thrown |-> rest.thrown]
            ELSE rest

\* The scan of take_actions_on_input from pair i on: the pairs whose action
\* it calls, which is the first pair whose predicate holds, for then it
\* returns; a ProgramBug when it falls off the end of the list.
RECURSIVE ScanActionList(_, _, _)
ScanActionList(list, tree, i) ==
    IF i > Len(list) THEN [pairs |-> << >>, thrown |-> "ProgramBug"]
    ELSE IF predicate_throws(list[i], tree)
    THEN [pairs |-> << >>, thrown |-> "ptree_bad_path"]
    ELSE IF predicate(list[i], tree)
    THEN [pairs |-> << i >>, thrown |-> "none"]
    ELSE ScanActionList(list, tree, i + 1)

RECURSIVE RunActions(_, _, _, _)
RunActions(list, idxs, tree, job_num) ==
    IF idxs = << >> THEN Submits(<< >>)
    ELSE LET first == action(list[Head(idxs)], tree, job_num)
             rest == RunActions(list, Tail(idxs), tree, job_num)
         IN IF first.thrown # "none" THEN first
            ELSE [tasks |-> first.tasks \o rest.tasks, thrown |-> rest.thrown]

\* A take_actions_on_input that would skip a string that does not parse.
take_actions_on_input_skipping(list, rec, job_num) ==
    IF ~rec.wf THEN [invoked |-> << >>, tasks |-> << >>, thrown |-> "none"]
    ELSE [invoked |-> << 1 >>,
          tasks |-> action(list[1], rec, job_num).tasks,
          thrown |-> action(list[1], rec, job_num).thrown]

\* take_actions_on_input: parse, scan, act.  invoked: the pairs called.
take_actions_on_input(list, rec, job_num) ==
    IF ~rec.wf THEN [invoked |-> << >>, tasks |-> << >>,
                     thrown |-> "xml_parser_error"]
    ELSE LET scan == ScanActionList(list, rec, 1)
             r == RunActions(list, scan.pairs, rec, job_num)
         IN IF scan.thrown # "none"
            THEN [invoked |-> scan.pairs, tasks |-> << >>,
                  thrown |-> scan.thrown]
            ELSE [invoked |-> scan.pairs, tasks |-> r.tasks,
                  thrown |-> r.thrown]

\* ------------------------------------------------ shared state of closures

\* ReorderWindow::update: the multimap keeps (timestamp, packet) sorted by
\* timestamp, a new packet going after the packets of the same timestamp;
\* then the oldest packets are written out while the newest is more than
\* the tolerance ahead of them.
RECURSIVE WindowInsert(_, _)
WindowInsert(window, p) ==
    IF window = << >> THEN << p >>
    ELSE IF Head(window).timestamp > p.timestamp THEN << p >> \o window
    ELSE << Head(window) >> \o WindowInsert(Tail(window), p)

RECURSIVE WindowEvict(_, _)
WindowEvict(window, out) ==
    IF window[Len(window)].timestamp - Head(window).timestamp > OooTolerance
    THEN WindowEvict(Tail(window), Append(out, Head(window).str))
    ELSE [window |-> window, out |-> out]

\* An update that would insert and leave every eviction to flush.
ReorderWindow_update_keeping(window, out, timestamp, str) ==
    [window |-> WindowInsert(window, [timestamp |-> timestamp, str |-> str]),
     out |-> out]

ReorderWindow_update(window, out, timestamp, str) ==
    WindowEvict(WindowInsert(window, [timestamp |-> timestamp, str |-> str]),
                out)

\* A flush that would clear the window and write nothing.
ReorderWindow_flush_nothing(window, out) == out

RECURSIVE ReorderWindow_flush(_, _)
ReorderWindow_flush(window, out) ==
    IF window = << >> THEN out
    ELSE ReorderWindow_flush(Tail(window), Append(out, Head(window).str))

\* Closures whose dedup test would be rawtime > g_latest_seen_timestamp.
RunClosureStrict(func, sh) ==
    CASE func.op = "echo_if_new" ->
            IF func.rawtime > sh.latest
            THEN [sh EXCEPT !.output = Append(@, func.content),
                            !.latest = func.rawtime]
            ELSE sh
      [] func.op = "window_update" ->
            LET r == ReorderWindow_update(sh.window, sh.output,
                                          func.rawtime, func.content)
            IN [sh EXCEPT !.output = r.out, !.window = r.window]
      [] func.op \in {"print", "echo_in_range", "echo_if_match"} ->
            [sh EXCEPT !.output = Append(@, func.content)]
      [] func.op = "update_last_pdcp" -> [sh EXCEPT !.last_pdcp = func.rawtime]
      [] OTHER -> sh

\* The state the closures read and write: the output sink, the dedup
\* high-water mark, the reorder window, the last PDCP packet timestamp.
\* RunClosure is the body of the lambda an action captured.
RunClosure(func, sh) ==
    CASE func.op = "echo_if_new" ->
            IF func.rawtime >= sh.latest
            THEN [sh EXCEPT !.output = Append(@, func.content),
                            !.latest = func.rawtime]
            ELSE sh
      [] func.op = "window_update" ->
            LET r == ReorderWindow_update(sh.window, sh.output,
                                          func.rawtime, func.content)
            IN [sh EXCEPT !.output = r.out, !.window = r.window]
      [] func.op \in {"print", "echo_in_range", "echo_if_match"} ->
            [sh EXCEPT !.output = Append(@, func.content)]
      [] func.op = "update_last_pdcp" -> [sh EXCEPT !.last_pdcp = func.rawtime]
      [] OTHER -> sh

\* ----------------------------------------------------------- pending heap

\* std::priority_queue with std::greater: top() is a task of least seq_num.
RECURSIVE HeapPush(_, _)
HeapPush(heap, task) ==
    IF heap = << >> THEN << task >>
    ELSE IF Head(heap).seq_num > task.seq_num THEN << task >> \o heap
    ELSE << Head(heap) >> \o HeapPush(Tail(heap), task)

RECURSIVE HeapPushAll(_, _)
HeapPushAll(heap, tasks) ==
    IF tasks = << >> THEN heap
    ELSE HeapPushAll(HeapPush(heap, Head(tasks)), Tail(tasks))

\* An executor that would run the top task whatever its number.
RunnableAnySeq(heap, next) == heap # << >>

\* The executor runs the top task when its seq_num is g_next_task_num.
Runnable(heap, next) == heap # << >> /\ Head(heap).seq_num = next

\* A loop that would go on to the end of the heap once it has started.
RECURSIVE DrainToEmpty(_)
DrainToEmpty(st) ==
    IF st.heap = << >> THEN st
    ELSE DrainToEmpty([heap |-> Tail(st.heap),
                       next |-> st.next + 1,
                       shared |-> st.shared,
                       executed |-> Append(st.executed,
                                           Head(st.heap).seq_num),
                       thrown |-> "none"])

\* The loop `while (!empty && top().seq_num == g_next_task_num)`: run the
\* closure, pop, increment; a closure that throws leaves the loop at once.
RECURSIVE Drain(_)
Drain(st) ==
    IF ~Runnable(st.heap, st.next) THEN st
    ELSE IF ~Head(st.heap).func.sink_ok
    THEN [st EXCEPT !.thrown = "closure_error"]
    ELSE Drain([heap |-> Tail(st.heap),
                next |-> st.next + 1,
                shared |-> RunClosure(Head(st.heap).func, st.shared),
                executed |-> Append(st.executed, Head(st.heap).seq_num),
                thrown |-> "none"])

\* ------------------------------------------------------ lexical splitter

\* The bytes the finite state machine tells apart, and one of the others.
Bytes == {"<", ">", "/", "\n", "x"}

machine_action_angle_closed(state, depth, c) ==
    IF c = "<" THEN [state |-> "AngleOpen", depth |-> depth]
    ELSE [state |-> state, depth |-> depth]

machine_action_angle_open(state, depth, c) ==
    IF c = "/" THEN [state |-> "ClosingSubtree", depth |-> depth]
    ELSE [state |-> "CreatingSubtree", depth |-> depth]

\* A CreatingField whose '>' would count as the opening of a subtree.
machine_action_creating_field_deeper(state, depth, c) ==
    IF c = ">" THEN [state |-> "AngleClosed", depth |-> depth + 1]
    ELSE [state |-> "CreatingSubtree", depth |-> depth]

machine_action_creating_field(state, depth, c) ==
    IF c = ">" THEN [state |-> "AngleClosed", depth |-> depth]
    ELSE [state |-> "CreatingSubtree", depth |-> depth]

machine_action_creating_subtree(state, depth, c) ==
    IF c = ">" THEN [state |-> "AngleClosed", depth |-> depth + 1]
    ELSE IF c = "/" THEN [state |-> "CreatingField", depth |-> depth]
    ELSE [state |-> state, depth |-> depth]

machine_action_closing_subtree(state, depth, c) ==
    IF c = ">" THEN [state |-> "AngleClosed", depth |-> depth - 1]
    ELSE [state |-> state, depth |-> depth]

\* The switch on the state in the loop of next_ptree_string.
MachineSwitch(state, depth, c) ==
    CASE state = "AngleClosed" -> machine_action_angle_closed(state, depth, c)
      [] state = "AngleOpen" -> machine_action_angle_open(state, depth, c)
      [] state = "CreatingField" ->
            machine_action_creating_field(state, depth, c)
      [] state = "CreatingSubtree" ->
            machine_action_creating_subtree(state, depth, c)
      [] state = "ClosingSubtree" ->
            machine_action_closing_subtree(state, depth, c)

\* A skip loop that would not count the newlines it passes.
RECURSIVE SkipToAngleUncounted(_, _, _, _)
SkipToAngleUncounted(file, idx, line, c) ==
    IF idx >= Len(file) THEN [idx |-> idx, line |-> line, c |-> c]
    ELSE IF file[idx + 1] = "<"
    THEN [idx |-> idx + 1, line |-> line, c |-> "<"]
    ELSE SkipToAngleUncounted(file, idx + 1, line, file[idx + 1])

\* The loop `while (buffered_getchar(c) && c != '<')` from byte idx of a
\* file on.  c keeps the value it had when no byte could be read.
RECURSIVE SkipToAngle(_, _, _, _)
SkipToAngle(file, idx, line, c) ==
    IF idx >= Len(file) THEN [idx |-> idx, line |-> line, c |-> c]
    ELSE IF file[idx + 1] = "<"
    THEN [idx |-> idx + 1, line |-> line, c |-> "<"]
    ELSE SkipToAngle(file, idx + 1,
                     IF file[idx + 1] = "\n" THEN line + 1 ELSE line,
                     file[idx + 1])

\* The bytes the buffer still holds when idx bytes of a file are consumed.
\* buffered_getchar refills by input->read(buf, BUFF_SIZE) when the buffer
\* runs out, so the refills fall at the multiples of the buffer size.
Buffered(file, idx, buff_size) ==
    IF idx % buff_size = 0 THEN 0
    ELSE LET base == idx - (idx % buff_size)
             end == IF Len(file) - base < buff_size THEN Len(file) - base
                    ELSE buff_size
         IN end - (idx % buff_size)

\* `tree += chunk` appends a NUL-terminated char array: the bytes of the
\* chunk before its first byte of value 0.
RECURSIVE CString(_)
CString(chunk) ==
    IF chunk = << >> \/ Head(chunk) = "NUL" THEN << >>
    ELSE << Head(chunk) >> \o CString(Tail(chunk))

\* BufReader::buffered_getchunk: fails when fewer than XMM_WIDTH bytes are
\* buffered or one of them is '<', '>' or '/'; otherwise consumes them and
\* counts their newlines.
buffered_getchunk(file, idx, buff_size) ==
    IF Buffered(file, idx, buff_size) < XMM_WIDTH
    THEN [ok |-> FALSE, chunk |-> << >>, line_cnt |-> 0]
    ELSE LET chunk == SubSeq(file, idx + 1, idx + XMM_WIDTH)
         IN IF \E k \in 1..XMM_WIDTH : chunk[k] \in {"<", ">", "/"}
            THEN [ok |-> FALSE, chunk |-> << >>, line_cnt |-> 0]
            ELSE [ok |-> TRUE, chunk |-> chunk,
                  line_cnt |-> Cardinality({ k \in 1..XMM_WIDTH :
                                               chunk[k] = "\n" })]

\* The loop `while (g_buf_reader.buffered_getchunk(chunk, line_cnt))`.
RECURSIVE ReadChunks(_, _, _, _, _)
ReadChunks(file, idx, line, tree, buff_size) ==
    LET g == buffered_getchunk(file, idx, buff_size)
    IN IF ~g.ok THEN [idx |-> idx, line |-> line, tree |-> tree]
       ELSE ReadChunks(file, idx + XMM_WIDTH, line + g.line_cnt,
                       tree \o CString(g.chunk), buff_size)

\* sse_accel after the switch: machine_action_angle_open turns it on when
\* it enters CreatingSubtree, in a build that defines ACCEL_AVAIL.
sse_accel(build, state, c) == build.accel /\ state = "AngleOpen" /\ c # "/"

\* A machine that would drop what it has stored when the file ends.
RECURSIVE RunMachineDropping(_, _, _, _, _, _, _, _)
RunMachineDropping(file, idx, line, state, depth, tree, c, build) ==
    LET m == MachineSwitch(state, depth, c)
    IN IF m.depth = 0 /\ m.state = "AngleClosed"
       THEN [kind |-> "record", tree |-> Append(tree, c), idx |-> idx,
             line |-> line]
       ELSE IF idx >= Len(file)
       THEN [kind |-> "partial", tree |-> << >>, idx |-> idx, line |-> line]
       ELSE RunMachineDropping(file, idx + 1,
                               IF file[idx + 1] = "\n" THEN line + 1
                               ELSE line,
                               m.state, m.depth, Append(tree, c),
                               file[idx + 1], build)

\* The loop `while (true)` of next_ptree_string, entered with the byte c
\* in hand: store c, step the machine, leave with the record when the
\* machine is back in AngleClosed at depth 0, read chunks while sse_accel
\* is on, and leave with what is stored when no further byte can be read.
RECURSIVE RunMachine(_, _, _, _, _, _, _, _)
RunMachine(file, idx, line, state, depth, tree, c, build) ==
    LET m == MachineSwitch(state, depth, c)
        stored == [idx |-> idx, line |-> line, tree |-> Append(tree, c)]
        r == IF sse_accel(build, state, c)
             THEN ReadChunks(file, idx, line, stored.tree, build.buff_size)
             ELSE stored
    IN IF m.depth = 0 /\ m.state = "AngleClosed"
       THEN [kind |-> "record", tree |-> stored.tree, idx |-> idx,
             line |-> line]
       ELSE IF r.idx >= Len(file)
       THEN [kind |-> "partial", tree |-> r.tree, idx |-> r.idx,
             line |-> r.line]
       ELSE RunMachine(file, r.idx + 1,
                       IF file[r.idx + 1] = "\n" THEN r.line + 1 ELSE r.line,
                       m.state, m.depth, r.tree, file[r.idx + 1], build)

\* next_ptree_string: the outcomes of a call with g_current_file_idx at
\* file_idx and the reader at byte idx of the file input, the stream
\* set_input attached last.  `char c` is not initialised: when the first
\* read fails the test `c == '<'` reads an indeterminate value, and the
\* call may go either way.  first is the place of the '<' the string began
\* at.  At the end of the stream the index is incremented and the stream
\* of the new index attached: a stream that was read before has no bytes
\* left.
RECURSIVE next_ptree_string(_, _, _, _, _, _, _)
next_ptree_string(inputs, file_idx, input, idx, line, start_line, build) ==
    LET file == inputs[input + 1]
        skip == SkipToAngle(file, idx, line, "indeterminate")
        angle == IF skip.c = "indeterminate" THEN {TRUE, FALSE}
                 ELSE {skip.c = "<"}
    IN UNION {
         IF a
         THEN LET r == RunMachine(file, skip.idx, skip.line, "AngleClosed",
                                  0, << >>, "<", build)
              IN {[kind |-> r.kind, tree |-> r.tree, file_idx |-> file_idx,
                   input |-> input,
                   idx |-> r.idx, line |-> r.line, start_line |-> skip.line,
                   first |-> skip.idx]}
         ELSE IF file_idx + 1 = Len(inputs)
         THEN {[kind |-> "eof", tree |-> << >>, file_idx |-> file_idx + 1,
                input |-> input,
                idx |-> skip.idx, line |-> skip.line,
                start_line |-> start_line, first |-> skip.idx]}
         ELSE next_ptree_string(inputs, file_idx + 1, file_idx + 1,
                                IF file_idx + 1 <= input
                                THEN Len(inputs[file_idx + 2]) ELSE 0,
                                1, start_line, build)
         : a \in angle }

\* ------------------------------------------------------------------ state

VARIABLES
    g_thread_num,       \* -j: the number of extractor threads
    mode,               \* the mode parse_option selected
    g_action_list,      \* the list the mode initialised
    build,              \* accel: ACCEL_AVAIL defined; buff_size: BUFF_SIZE
    records,            \* the records of the input stream, in order
    stream_pos,         \* how many of them next_ptree_string has returned
    g_main_state,       \* MainState
    g_pexcept,          \* the stored exception, "none" for nullptr
    main_pc,            \* where smain (and then main) stands
    main_asleep,        \* main sleeps on g_main_state_change_cv
    splitter_pc,        \* where smain_splitter stands
    splitter_early_terminating,   \* splitter.cpp g_early_terminating
    job_num,            \* smain_splitter's counter of read strings
    splitter_job,       \* the Job being handed to produce_job_to_extractor
    splitter_asleep,    \* the splitter sleeps on g_job_queue_nonfull_cv
    g_job_queue,        \* the FIFO of Jobs
    enqueued,           \* every Job that entered g_job_queue, in order
    g_splitter_finished,
    extractor_early_terminating,  \* extractor.cpp g_early_terminating
    g_alive_extractor_num,
    g_running_extractor_num,
    extractor_pc,       \* where each smain_extractor stands
    extractor_job,      \* the Job each extractor has popped, or NoJob
    invoked,            \* what take_actions_on_input did for each Job
    nonempty_asleep,    \* extractors asleep on g_job_queue_nonempty_cv
    g_pending_task,     \* the priority queue of OrderedTasks
    g_next_task_num,
    executor_early_terminating,   \* in_order_executor.cpp g_early_terminating
    g_no_more_task,
    executor_pc,        \* where smain_in_order_executor stands
    executor_asleep,    \* the executor sleeps on g_pending_task_nonempty_cv
    shared,             \* what the closures read and write
    executed,           \* the seq_num of every closure run, in order
    submitted,          \* the seq_num of every insert_ordered_task, in order
    exit_code,          \* what main returned, -1 while it runs
    g_inputs,           \* the input files, each a sequence of bytes
    g_current_file_idx,
    g_buf_reader_input, \* the file whose stream the reader is attached to
    g_buf_reader,       \* how many bytes of the attached file are consumed
    g_current_line_number,
    g_start_line_number,
    returned            \* what every call of next_ptree_string returned,
                        \* file_idx the file whose stream it was read from

configVars == << g_thread_num, mode, g_action_list, build >>

mainVars == << g_main_state, g_pexcept, main_pc, main_asleep, exit_code >>

splitterVars == << records, stream_pos, splitter_pc, splitter_early_terminating, job_num,
                   splitter_job, splitter_asleep >>

queueVars == << g_job_queue, enqueued, g_splitter_finished, extractor_early_terminating,
                g_alive_extractor_num, g_running_extractor_num,
                nonempty_asleep >>

extractorVars == << extractor_pc, extractor_job, invoked >>

executorVars == << g_pending_task, g_next_task_num,
                   executor_early_terminating, g_no_more_task, executor_pc,
                   executor_asleep, submitted >>

closureVars == << shared, executed >>

readerVars == << g_inputs, g_current_file_idx, g_buf_reader_input, g_buf_reader,
                 g_current_line_number, g_start_line_number, returned >>

vars == << configVars, mainVars, splitterVars, queueVars, extractorVars,
           executorVars, closureVars, readerVars >>

\* The extractors start_extractor spawns.
Extractors == 1..g_thread_num

SharedInit ==
    [output |-> << >>, latest |-> 0, window |-> << >>, last_pdcp |-> -1]

\* struct Job.  In the runs of the pipeline a record of the stream takes
\* one line of the one input file.
Job(num, xml_string, file_name, start_line_number, end_line_number) ==
    [job_num |-> num, xml_string |-> xml_string, file_name |-> file_name,
     start_line_number |-> start_line_number,
     end_line_number |-> end_line_number]

NoJob == Job(-1, Rec(FALSE, FALSE, "none", -1, FALSE, TRUE), -1, -1, -1)

\* The input streams of at most MaxRecords records over a set of records.
Streams(S) == UNION { [1..n -> S] : n \in 0..MaxRecords }

\* The builds: with or without ACCEL_AVAIL (macros.hpp:7-9).
ScalarBuild == [accel |-> FALSE, buff_size |-> BUFF_SIZE]

AccelBuild == [accel |-> TRUE, buff_size |-> BUFF_SIZE]

\* The state when main calls smain: options parsed, the input files
\* opened, no thread spawned.
InitWith(threads, streams, modes, extractors, inputs, builds) ==
    /\ g_thread_num \in threads
    /\ build \in builds
    /\ mode \in modes
    /\ \E enabled \in extractors :
          g_action_list = ActionListOf(mode, enabled)
    /\ records \in streams
    /\ g_main_state = "Initializing"
    /\ g_pexcept = "none"
    /\ main_pc = "switch"
    /\ main_asleep = FALSE
    /\ exit_code = -1
    /\ splitter_pc = "unborn"
    /\ splitter_early_terminating = FALSE
    /\ job_num = 0
    /\ stream_pos = 0
    /\ splitter_job = NoJob
    /\ splitter_asleep = FALSE
    /\ g_job_queue = << >>
    /\ g_splitter_finished = FALSE
    /\ extractor_early_terminating = FALSE
    /\ g_alive_extractor_num = 0
    /\ g_running_extractor_num = 0
    /\ extractor_pc = [w \in Workers |-> "unborn"]
    /\ extractor_job = [w \in Workers |-> NoJob]
    /\ invoked = {}
    /\ enqueued = << >>
    /\ nonempty_asleep = {}
    /\ g_pending_task = << >>
    /\ g_next_task_num = 0
    /\ executor_early_terminating = FALSE
    /\ g_no_more_task = FALSE
    /\ executor_pc = "unborn"
    /\ executor_asleep = FALSE
    /\ shared = SharedInit
    /\ executed = << >>
    /\ submitted = << >>
    /\ g_inputs \in inputs
    /\ g_current_file_idx = 0
    /\ g_buf_reader_input = 0
    /\ g_buf_reader = 0
    /\ g_current_line_number = 1
    /\ g_start_line_number = 0
    /\ returned = << >>

\* The runs of the pipeline: the records of the input stand for its bytes.
Init == InitWith(1..MaxThreads, Streams(PipelineRecords), PipelineModes,
                 {<< >>}, {<< >>}, {ScalarBuild})

\* --------------------------------------------------------- run controller

mainStateVars == << g_main_state, g_pexcept, main_asleep >>

\* A propagation in which every caller would store its exception.
propagate_exeption_overwriting(what) ==
    /\ g_pexcept' = what
    /\ g_main_state' = "Error"
    /\ main_asleep' = FALSE

\* propagate_exeption_to_main: the first caller stores its exception.
propagate_exeption_to_main(what) ==
    IF g_main_state # "Error"
    THEN /\ g_pexcept' = what
         /\ g_main_state' = "Error"
         /\ main_asleep' = FALSE
    ELSE UNCHANGED mainStateVars

\* A notify_main_thread that would not look at the state it leaves.
notify_main_thread_unchecked(expected, next) ==
    /\ g_main_state' = next
    /\ main_asleep' = FALSE
    /\ UNCHANGED g_pexcept

\* The three static notify_main_thread functions: advance the main state
\* when it is the expected one, leave Error alone, and otherwise throw a
\* ProgramBug, which the caller's catch (...) propagates.
notify_main_thread(expected, next) ==
    IF g_main_state = expected
    THEN /\ g_main_state' = next
         /\ main_asleep' = FALSE
         /\ UNCHANGED g_pexcept
    ELSE IF g_main_state # "Error"
    THEN propagate_exeption_to_main("ProgramBug")
    ELSE UNCHANGED mainStateVars

splitter_notify_main_thread ==
    notify_main_thread("AllRunning", "SplitterFinished")

extractor_notify_main_thread ==
    notify_main_thread("SplitterFinished", "ExtractorFinished")

executor_notify_main_thread ==
    notify_main_thread("ExtractorFinished", "InOrderExecutorFinished")

\* The state a wait in smain waits to see changed.
WaitedState(pc) ==
    CASE pc = "wait_AllRunning" -> "AllRunning"
      [] pc = "wait_SplitterFinished" -> "SplitterFinished"
      [] pc = "wait_ExtractorFinished" -> "ExtractorFinished"
      [] OTHER -> "none"

\* A switch whose AllRunning case would not wait for the splitter but go
\* on to notify_splitter_finished.
SwitchCaseEager(state) ==
    CASE state = "Initializing" -> "start_splitter"
      [] state = "AllRunning" -> "SplitterFinished_notify"
      [] state = "SplitterFinished" -> "SplitterFinished_join"
      [] state = "ExtractorFinished" -> "ExtractorFinished_join"
      [] state = "InOrderExecutorFinished" -> "InOrderExecutorFinished_join"
      [] state = "Error" -> "Error_kill_splitter"

\* A switch whose Initializing case would spawn nothing and go to wait.
SwitchCaseIdle(state) ==
    CASE state = "Initializing" -> "wait_AllRunning"
      [] state = "AllRunning" -> "wait_AllRunning"
      [] state = "SplitterFinished" -> "SplitterFinished_join"
      [] state = "ExtractorFinished" -> "ExtractorFinished_join"
      [] state = "InOrderExecutorFinished" -> "InOrderExecutorFinished_join"
      [] state = "Error" -> "Error_kill_splitter"

\* The case smain's switch takes for a main state.
SwitchCase(state) ==
    CASE state = "Initializing" -> "start_splitter"
      [] state = "AllRunning" -> "wait_AllRunning"
      [] state = "SplitterFinished" -> "SplitterFinished_join"
      [] state = "ExtractorFinished" -> "ExtractorFinished_join"
      [] state = "InOrderExecutorFinished" -> "InOrderExecutorFinished_join"
      [] state = "Error" -> "Error_kill_splitter"

\* smain holding g_main_state_mtx: a wait whose predicate is false sleeps;
\* otherwise the switch reads the state and enters its case.
smain_switch ==
    /\ main_pc \in {"switch", "wait_AllRunning", "wait_SplitterFinished",
                    "wait_ExtractorFinished"}
    /\ ~main_asleep
    /\ IF WaitedState(main_pc) = g_main_state
       THEN /\ main_asleep' = TRUE
            /\ UNCHANGED << g_main_state, main_pc >>
       ELSE /\ main_pc' = SwitchCase(g_main_state)
            /\ main_asleep' = (g_main_state = "AllRunning")
            /\ g_main_state' = IF g_main_state = "Initializing"
                               THEN "AllRunning" ELSE g_main_state
    /\ UNCHANGED << g_pexcept, exit_code >>
    /\ UNCHANGED << configVars, readerVars, splitterVars, queueVars, extractorVars,
                    executorVars, closureVars >>

\* start_splitter: the thread is spawned, and only then are the flag and
\* the index of the current file reset.
start_splitter ==
    /\ main_pc = "start_splitter"
    /\ main_pc' = "start_splitter_reset"
    /\ splitter_pc' = "loop"
    /\ UNCHANGED << g_main_state, g_pexcept, main_asleep, exit_code >>
    /\ UNCHANGED << records, stream_pos, splitter_early_terminating, job_num,
                    splitter_job, splitter_asleep >>
    /\ UNCHANGED << configVars, readerVars, queueVars, extractorVars, executorVars,
                    closureVars >>

start_splitter_reset ==
    /\ main_pc = "start_splitter_reset"
    /\ main_pc' = "start_extractor"
    /\ splitter_early_terminating' = FALSE
    /\ g_current_file_idx' = 0
    /\ UNCHANGED << g_main_state, g_pexcept, main_asleep, exit_code >>
    /\ UNCHANGED << records, stream_pos, splitter_pc, job_num, splitter_job,
                    splitter_asleep >>
    /\ UNCHANGED << g_inputs, g_buf_reader_input, g_buf_reader,
                    g_current_line_number, g_start_line_number, returned >>
    /\ UNCHANGED << configVars, queueVars, extractorVars, executorVars,
                    closureVars >>

start_extractor ==
    /\ main_pc = "start_extractor"
    /\ main_pc' = "start_in_order_executor"
    /\ g_splitter_finished' = FALSE
    /\ extractor_pc' = [w \in Workers |->
                          IF w \in Extractors THEN "top" ELSE "unborn"]
    /\ g_alive_extractor_num' = g_thread_num
    /\ g_running_extractor_num' = g_thread_num
    /\ UNCHANGED << g_main_state, g_pexcept, main_asleep, exit_code >>
    /\ UNCHANGED << g_job_queue, enqueued, extractor_early_terminating,
                    nonempty_asleep, extractor_job, invoked >>
    /\ UNCHANGED << configVars, readerVars, splitterVars, executorVars, closureVars >>

start_in_order_executor ==
    /\ main_pc = "start_in_order_executor"
    /\ main_pc' = "switch"
    /\ g_next_task_num' = 0
    /\ executor_early_terminating' = FALSE
    /\ g_no_more_task' = FALSE
    /\ executor_pc' = "wait"
    /\ UNCHANGED << g_main_state, g_pexcept, main_asleep, exit_code >>
    /\ UNCHANGED << g_pending_task, executor_asleep, submitted >>
    /\ UNCHANGED << configVars, readerVars, splitterVars, queueVars, extractorVars,
                    closureVars >>

\* join_splitter, from the SplitterFinished case and from the Error case.
join_splitter ==
    /\ main_pc \in {"SplitterFinished_join", "Error_join_splitter"}
    /\ splitter_pc = "done"
    /\ main_pc' = IF main_pc = "SplitterFinished_join"
                  THEN "SplitterFinished_notify" ELSE "Error_join_extractor"
    /\ UNCHANGED << g_main_state, g_pexcept, main_asleep, exit_code >>
    /\ UNCHANGED << configVars, readerVars, splitterVars, queueVars, extractorVars,
                    executorVars, closureVars >>

notify_splitter_finished ==
    /\ main_pc = "SplitterFinished_notify"
    /\ main_pc' = "wait_SplitterFinished"
    /\ g_splitter_finished' = TRUE
    /\ nonempty_asleep' = {}
    /\ UNCHANGED << g_main_state, g_pexcept, main_asleep, exit_code >>
    /\ UNCHANGED << g_job_queue, enqueued, extractor_early_terminating,
                    g_alive_extractor_num, g_running_extractor_num >>
    /\ UNCHANGED << configVars, readerVars, splitterVars, extractorVars, executorVars,
                    closureVars >>

join_extractor ==
    /\ main_pc \in {"ExtractorFinished_join", "Error_join_extractor"}
    /\ \A w \in Extractors : extractor_pc[w] = "done"
    /\ main_pc' = IF main_pc = "ExtractorFinished_join"
                  THEN "ExtractorFinished_notify"
                  ELSE "Error_join_in_order_executor"
    /\ UNCHANGED << g_main_state, g_pexcept, main_asleep, exit_code >>
    /\ UNCHANGED << configVars, readerVars, splitterVars, queueVars, extractorVars,
                    executorVars, closureVars >>

notify_extractor_finished ==
    /\ main_pc = "ExtractorFinished_notify"
    /\ main_pc' = "wait_ExtractorFinished"
    /\ g_no_more_task' = TRUE
    /\ executor_asleep' = FALSE
    /\ UNCHANGED << g_main_state, g_pexcept, main_asleep, exit_code >>
    /\ UNCHANGED << g_pending_task, g_next_task_num,
                    executor_early_terminating, executor_pc, submitted >>
    /\ UNCHANGED << configVars, readerVars, splitterVars, queueVars, extractorVars,
                    closureVars >>

\* join_in_order_executor; after it smain returns, or rethrows g_pexcept
\* (a ProgramBug when the pointer is still null).
join_in_order_executor ==
    /\ main_pc \in {"InOrderExecutorFinished_join",
                    "Error_join_in_order_executor"}
    /\ executor_pc = "done"
    /\ main_pc' = IF main_pc = "InOrderExecutorFinished_join"
                  THEN "returned" ELSE "rethrown"
    /\ g_pexcept' = IF main_pc = "Error_join_in_order_executor"
                       /\ g_pexcept = "none"
                    THEN "ProgramBug" ELSE g_pexcept
    /\ UNCHANGED << g_main_state, main_asleep, exit_code >>
    /\ UNCHANGED << configVars, readerVars, splitterVars, queueVars, extractorVars,
                    executorVars, closureVars >>

\* kill_splitter stores false into the splitter's g_early_terminating.
kill_splitter ==
    /\ main_pc = "Error_kill_splitter"
    /\ main_pc' = "Error_kill_extractor"
    /\ splitter_early_terminating' = FALSE
    /\ UNCHANGED << g_main_state, g_pexcept, main_asleep, exit_code >>
    /\ UNCHANGED << records, stream_pos, splitter_pc, job_num, splitter_job,
                    splitter_asleep >>
    /\ UNCHANGED << configVars, readerVars, queueVars, extractorVars, executorVars,
                    closureVars >>

\* A kill_extractor that would set the flag and wake nobody.
kill_extractor_unsignalled ==
    /\ main_pc = "Error_kill_extractor"
    /\ main_pc' = "Error_kill_in_order_executor"
    /\ extractor_early_terminating' = TRUE
    /\ UNCHANGED << splitter_asleep, nonempty_asleep >>
    /\ UNCHANGED << g_main_state, g_pexcept, main_asleep, exit_code >>
    /\ UNCHANGED << records, stream_pos, splitter_pc,
                    splitter_early_terminating, job_num, splitter_job >>
    /\ UNCHANGED << g_job_queue, enqueued, g_splitter_finished,
                    g_alive_extractor_num, g_running_extractor_num >>
    /\ UNCHANGED << configVars, readerVars, extractorVars, executorVars, closureVars >>

\* kill_extractor: set the flag and notify_all on both condition
\* variables of the queue.
kill_extractor ==
    /\ main_pc = "Error_kill_extractor"
    /\ main_pc' = "Error_kill_in_order_executor"
    /\ extractor_early_terminating' = TRUE
    /\ splitter_asleep' = FALSE
    /\ nonempty_asleep' = {}
    /\ UNCHANGED << g_main_state, g_pexcept, main_asleep, exit_code >>
    /\ UNCHANGED << records, stream_pos, splitter_pc, splitter_early_terminating,
                    job_num, splitter_job >>
    /\ UNCHANGED << g_job_queue, enqueued, g_splitter_finished, g_alive_extractor_num,
                    g_running_extractor_num >>
    /\ UNCHANGED << configVars, readerVars, extractorVars, executorVars, closureVars >>

\* A kill_in_order_executor that would wake the executor and leave its
\* flag as it was.
kill_in_order_executor_unset ==
    /\ main_pc = "Error_kill_in_order_executor"
    /\ main_pc' = "Error_join_splitter"
    /\ executor_asleep' = FALSE
    /\ UNCHANGED << g_main_state, g_pexcept, main_asleep, exit_code >>
    /\ UNCHANGED << g_pending_task, g_next_task_num, g_no_more_task,
                    executor_early_terminating, executor_pc, submitted >>
    /\ UNCHANGED << configVars, readerVars, splitterVars, queueVars, extractorVars,
                    closureVars >>

\* kill_in_order_executor: set the flag under g_pending_task_mtx and
\* notify the executor.
kill_in_order_executor ==
    /\ main_pc = "Error_kill_in_order_executor"
    /\ main_pc' = "Error_join_splitter"
    /\ executor_early_terminating' = TRUE
    /\ executor_asleep' = FALSE
    /\ UNCHANGED << g_main_state, g_pexcept, main_asleep, exit_code >>
    /\ UNCHANGED << g_pending_task, g_next_task_num, g_no_more_task,
                    executor_pc, submitted >>
    /\ UNCHANGED << configVars, readerVars, splitterVars, queueVars, extractorVars,
                    closureVars >>

\* The types the stored exception may have.  What the program itself
\* throws has the type named; a closure is any std::function<void()>, and
\* what it throws is of a type main names or of none of them.
ExceptionTypes(what) ==
    IF what = "closure_error" THEN {"std::exception", "unrecognised"}
    ELSE {what}

\* The handlers of main: each typed catch reports and returns 1; the
\* catch (...) reports and falls through to the `return 0` below it.
main_catch(type) == IF type = "unrecognised" THEN 0 ELSE 1

\* main after smain: cleanup() flushes the reorder window and main returns
\* 0; an exception out of smain is reported by the handler that catches it.
main_exit ==
    /\ main_pc \in {"returned", "rethrown"}
    /\ main_pc' = "exited"
    /\ IF main_pc = "returned" THEN exit_code' = 0
       ELSE \E type \in ExceptionTypes(g_pexcept) :
               exit_code' = main_catch(type)
    /\ shared' = IF main_pc = "returned" /\ mode = "reorder"
                 THEN [shared EXCEPT
                         !.output = ReorderWindow_flush(shared.window, @),
                         !.window = << >>]
                 ELSE shared
    /\ UNCHANGED << g_main_state, g_pexcept, main_asleep, executed >>
    /\ UNCHANGED << configVars, readerVars, splitterVars, queueVars, extractorVars,
                    executorVars >>

\* ---------------------------------------------------------------- splitter

\* A counter that would skip a number.
NextJobNumSkipping(n) == n + 2

\* `job_num++` in the Job smain_splitter builds.
NextJobNum(n) == n + 1

\* The top of smain_splitter's loop: the test of the terminating flag and
\* the call of next_ptree_string, which returns the next record of the
\* input stream or, at its end, the empty string.
smain_splitter_loop ==
    /\ splitter_pc = "loop"
    /\ IF splitter_early_terminating
       THEN /\ splitter_pc' = "after_loop"
            /\ UNCHANGED << records, stream_pos, job_num, splitter_job >>
       ELSE IF stream_pos < Len(records)
       THEN /\ stream_pos' = stream_pos + 1
            /\ splitter_job' = Job(job_num, records[stream_pos + 1], 0,
                                   stream_pos + 1, stream_pos + 1)
            /\ job_num' = NextJobNum(job_num)
            /\ splitter_pc' = "produce"
            /\ UNCHANGED records
       ELSE /\ splitter_pc' = "after_loop"
            /\ UNCHANGED << records, stream_pos, job_num, splitter_job >>
    /\ UNCHANGED << splitter_early_terminating, splitter_asleep >>
    /\ UNCHANGED << configVars, readerVars, mainVars, queueVars, extractorVars,
                    executorVars, closureVars >>

\* A wait that would let the splitter through at the mark itself.
JobQueueNonfullInclusive ==
    \/ g_splitter_finished
    \/ extractor_early_terminating
    \/ Len(g_job_queue) <= g_thread_num * HIGH_WATRE_MARK

\* The predicate of the wait on g_job_queue_nonfull_cv.
JobQueueNonfull ==
    \/ g_splitter_finished
    \/ extractor_early_terminating
    \/ Len(g_job_queue) < g_thread_num * HIGH_WATRE_MARK

\* g_job_queue_nonempty_cv.notify_one(): one sleeper, if any, wakes.
NotifyOneNonempty ==
    IF nonempty_asleep = {}
    THEN UNCHANGED nonempty_asleep
    ELSE \E w \in nonempty_asleep : nonempty_asleep' = nonempty_asleep \ {w}

produce_job_to_extractor ==
    /\ splitter_pc \in {"produce", "produce_wait"}
    /\ ~splitter_asleep
    /\ IF ~JobQueueNonfull
       THEN /\ splitter_asleep' = TRUE
            /\ splitter_pc' = "produce_wait"
            /\ UNCHANGED << g_job_queue, enqueued, nonempty_asleep,
                            mainStateVars >>
       ELSE IF extractor_early_terminating
       THEN /\ splitter_pc' = "loop"
            /\ UNCHANGED << splitter_asleep, g_job_queue, enqueued, nonempty_asleep,
                            mainStateVars >>
       ELSE IF g_splitter_finished
       THEN /\ splitter_pc' = "done"
            /\ propagate_exeption_to_main("ProgramBug")
            /\ UNCHANGED << splitter_asleep, g_job_queue, enqueued, nonempty_asleep >>
       ELSE /\ splitter_pc' = "loop"
            /\ IF g_running_extractor_num # g_alive_extractor_num
               THEN NotifyOneNonempty
               ELSE UNCHANGED nonempty_asleep
            /\ g_job_queue' = Append(g_job_queue, splitter_job)
            /\ enqueued' = Append(enqueued, splitter_job)
            /\ UNCHANGED << splitter_asleep, mainStateVars >>
    /\ UNCHANGED << records, stream_pos, splitter_early_terminating, job_num,
                    splitter_job >>
    /\ UNCHANGED << g_splitter_finished, extractor_early_terminating,
                    g_alive_extractor_num, g_running_extractor_num >>
    /\ UNCHANGED << main_pc, exit_code >>
    /\ UNCHANGED << configVars, readerVars, extractorVars, executorVars, closureVars >>

\* After the loop: notify the main thread unless terminating early.
smain_splitter_exit ==
    /\ splitter_pc = "after_loop"
    /\ splitter_pc' = "done"
    /\ IF ~splitter_early_terminating
       THEN splitter_notify_main_thread
       ELSE UNCHANGED mainStateVars
    /\ UNCHANGED << records, stream_pos, splitter_early_terminating, job_num,
                    splitter_job, splitter_asleep >>
    /\ UNCHANGED << main_pc, exit_code >>
    /\ UNCHANGED << configVars, readerVars, queueVars, extractorVars, executorVars,
                    closureVars >>

\* The top of smain_splitter's loop on the bytes of the input files: the
\* test of the flag, the call of next_ptree_string, the break on an empty
\* string and else the Job for produce_job_to_extractor.
smain_splitter_scan ==
    /\ splitter_pc = "loop"
    /\ IF splitter_early_terminating
       THEN /\ splitter_pc' = "after_loop"
            /\ UNCHANGED << job_num, splitter_job, g_current_file_idx,
                            g_buf_reader_input,
                            g_buf_reader, g_current_line_number,
                            g_start_line_number, returned >>
       ELSE \E r \in next_ptree_string(g_inputs, g_current_file_idx,
                                       g_buf_reader_input,
                                       g_buf_reader, g_current_line_number,
                                       g_start_line_number, build) :
               /\ g_current_file_idx' = r.file_idx
               /\ g_buf_reader_input' = r.input
               /\ g_buf_reader' = r.idx
               /\ g_current_line_number' = r.line
               /\ g_start_line_number' = r.start_line
               /\ returned' = Append(returned,
                                     [kind |-> r.kind, tree |-> r.tree,
                                      file_idx |-> r.input,
                                      first |-> r.first, last |-> r.idx])
               /\ IF r.tree = << >>
                  THEN /\ splitter_pc' = "after_loop"
                       /\ UNCHANGED << job_num, splitter_job >>
                  ELSE /\ splitter_pc' = "produce"
                       /\ splitter_job' = Job(job_num, r.tree, r.file_idx,
                                              r.start_line, r.line)
                       /\ job_num' = NextJobNum(job_num)
    /\ UNCHANGED << records, stream_pos, splitter_early_terminating,
                    splitter_asleep, g_inputs >>
    /\ UNCHANGED << configVars, mainVars, queueVars, extractorVars,
                    executorVars, closureVars >>

\* -------------------------------------------------------------- extractors

\* The predicate of the wait on g_job_queue_nonempty_cv.
JobQueueNonempty ==
    \/ g_job_queue # << >>
    \/ g_splitter_finished
    \/ extractor_early_terminating

\* An extractor that would never signal g_job_queue_nonfull_cv.
NeverBelowLowWaterMark == FALSE

\* The size test before the pop that signals g_job_queue_nonfull_cv.
BelowLowWaterMark == Len(g_job_queue) <= g_thread_num * LOW_WATER_MARK

\* Extractors of which the first one out would notify the main thread.
ExtractorLeavesFirst(w) ==
    /\ g_alive_extractor_num' = g_alive_extractor_num - 1
    /\ extractor_pc' = [extractor_pc EXCEPT ![w] =
                          IF g_alive_extractor_num = g_thread_num
                          THEN "notify_main" ELSE "done"]
    /\ UNCHANGED << g_job_queue, enqueued, splitter_asleep, extractor_job, invoked >>

\* An extractor that leaves because the queue is drained: the last one out
\* goes on to notify_main_thread.
ExtractorLeaves(w) ==
    /\ g_alive_extractor_num' = g_alive_extractor_num - 1
    /\ extractor_pc' = [extractor_pc EXCEPT ![w] =
                          IF g_alive_extractor_num - 1 = 0
                          THEN "notify_main" ELSE "done"]
    /\ UNCHANGED << g_job_queue, enqueued, splitter_asleep, extractor_job, invoked >>

\* smain_extractor from `Terminate prematurely` to the pop.
ExtractorProceeds(w) ==
    IF extractor_early_terminating
    THEN /\ extractor_pc' = [extractor_pc EXCEPT ![w] = "done"]
         /\ UNCHANGED << g_alive_extractor_num, g_job_queue, enqueued, splitter_asleep,
                         extractor_job, invoked >>
    ELSE IF g_job_queue = << >>
    THEN ExtractorLeaves(w)
    ELSE /\ splitter_asleep' = IF BelowLowWaterMark
                               THEN FALSE ELSE splitter_asleep
         /\ extractor_job' = [extractor_job EXCEPT ![w] = Head(g_job_queue)]
         /\ g_job_queue' = Tail(g_job_queue)
         /\ extractor_pc' = [extractor_pc EXCEPT ![w] = "work"]
         /\ UNCHANGED << g_alive_extractor_num, enqueued, invoked >>

\* The top of smain_extractor's loop, under g_extractors_mtx.
smain_extractor_top(w) ==
    /\ extractor_pc[w] = "top"
    /\ IF g_splitter_finished /\ g_job_queue = << >>
       THEN /\ ExtractorLeaves(w)
            /\ UNCHANGED << g_running_extractor_num, nonempty_asleep >>
       ELSE IF g_job_queue = << >> /\ ~JobQueueNonempty
       THEN /\ g_running_extractor_num' = g_running_extractor_num - 1
            /\ nonempty_asleep' = nonempty_asleep \cup {w}
            /\ extractor_pc' = [extractor_pc EXCEPT ![w] = "wait"]
            /\ UNCHANGED << g_alive_extractor_num, g_job_queue, enqueued,
                            splitter_asleep, extractor_job, invoked >>
       ELSE /\ ExtractorProceeds(w)
            /\ UNCHANGED << g_running_extractor_num, nonempty_asleep >>
    /\ UNCHANGED << records, stream_pos, splitter_pc, splitter_early_terminating,
                    job_num, splitter_job >>
    /\ UNCHANGED << g_splitter_finished, extractor_early_terminating >>
    /\ UNCHANGED << configVars, readerVars, mainVars, executorVars, closureVars >>

\* An extractor woken on g_job_queue_nonempty_cv re-evaluates the predicate.
smain_extractor_woken(w) ==
    /\ extractor_pc[w] = "wait"
    /\ w \notin nonempty_asleep
    /\ IF ~JobQueueNonempty
       THEN /\ nonempty_asleep' = nonempty_asleep \cup {w}
            /\ UNCHANGED << g_running_extractor_num, g_alive_extractor_num,
                            g_job_queue, enqueued, splitter_asleep, extractorVars >>
       ELSE /\ g_running_extractor_num' = g_running_extractor_num + 1
            /\ ExtractorProceeds(w)
            /\ UNCHANGED nonempty_asleep
    /\ UNCHANGED << records, stream_pos, splitter_pc, splitter_early_terminating,
                    job_num, splitter_job >>
    /\ UNCHANGED << g_splitter_finished, extractor_early_terminating >>
    /\ UNCHANGED << configVars, readerVars, mainVars, executorVars, closureVars >>

RECURSIVE SeqNums(_)
SeqNums(tasks) ==
    IF tasks = << >> THEN << >>
    ELSE << Head(tasks).seq_num >> \o SeqNums(Tail(tasks))

\* An insert_ordered_task that would call the closure on the caller's
\* thread as well as store it.
insert_ordered_task_inline(tasks) ==
    /\ g_pending_task' = HeapPushAll(g_pending_task, tasks)
    /\ executor_asleep' =
          (executor_asleep
             /\ \A i \in 1..Len(tasks) : tasks[i].seq_num # g_next_task_num)
    /\ submitted' = submitted \o SeqNums(tasks)
    /\ shared' = IF tasks = << >> THEN shared
                 ELSE RunClosure(Head(tasks).func, shared)
    /\ UNCHANGED executed

\* insert_ordered_task, for the tasks one action submits: the executor is
\* signalled when a task has the sequence number it waits for.  The
\* closure is stored in the heap, not called: what it captured by value
\* travels with it and the state it will touch is left alone.
insert_ordered_task(tasks) ==
    /\ g_pending_task' = HeapPushAll(g_pending_task, tasks)
    /\ executor_asleep' =
          (executor_asleep
             /\ \A i \in 1..Len(tasks) : tasks[i].seq_num # g_next_task_num)
    /\ submitted' = submitted \o SeqNums(tasks)
    /\ UNCHANGED closureVars

\* take_actions_on_input on the popped Job; an exception ends the thread
\* in the catch (...) of smain_extractor.
smain_extractor_work(w) ==
    /\ extractor_pc[w] = "work"
    /\ LET r == take_actions_on_input(g_action_list,
                                      extractor_job[w].xml_string,
                                      extractor_job[w].job_num)
       IN /\ invoked' = invoked \cup
                          {[job |-> extractor_job[w], pairs |-> r.invoked,
                            tasks |-> r.tasks, thrown |-> r.thrown]}
          /\ IF r.thrown # "none"
             THEN /\ propagate_exeption_to_main(r.thrown)
                  /\ extractor_pc' = [extractor_pc EXCEPT ![w] = "done"]
                  /\ UNCHANGED << g_pending_task, executor_asleep,
                                  submitted, closureVars >>
             ELSE /\ insert_ordered_task(r.tasks)
                  /\ extractor_pc' = [extractor_pc EXCEPT ![w] = "top"]
                  /\ UNCHANGED mainStateVars
    /\ extractor_job' = [extractor_job EXCEPT ![w] = NoJob]
    /\ UNCHANGED << g_next_task_num, executor_early_terminating,
                    g_no_more_task, executor_pc >>
    /\ UNCHANGED << main_pc, exit_code >>
    /\ UNCHANGED << configVars, readerVars, splitterVars, queueVars >>

\* The last extractor out calls notify_main_thread.
smain_extractor_exit(w) ==
    /\ extractor_pc[w] = "notify_main"
    /\ extractor_pc' = [extractor_pc EXCEPT ![w] = "done"]
    /\ extractor_notify_main_thread
    /\ UNCHANGED << main_pc, exit_code, extractor_job, invoked >>
    /\ UNCHANGED << configVars, readerVars, splitterVars, queueVars, executorVars,
                    closureVars >>

\* ---------------------------------------------------------------- executor

\* The predicate of the wait on g_pending_task_nonempty_cv.
PendingTaskReady ==
    \/ executor_early_terminating
    \/ Runnable(g_pending_task, g_next_task_num)
    \/ g_no_more_task

\* One pass of smain_in_order_executor under g_pending_task_mtx, from the
\* wait to the next wait: exit when killed, finish or fail when there is
\* no more task, else run the closures that are in order.  The mutex is
\* held across the closures, so the pass is one step.
smain_in_order_executor ==
    /\ executor_pc = "wait"
    /\ ~executor_asleep
    /\ IF ~PendingTaskReady
       THEN /\ executor_asleep' = TRUE
            /\ UNCHANGED << executor_pc, g_pending_task, g_next_task_num,
                            closureVars, mainStateVars >>
       ELSE IF executor_early_terminating
       THEN /\ executor_pc' = "done"
            /\ UNCHANGED << executor_asleep, g_pending_task, g_next_task_num,
                            closureVars, mainStateVars >>
       ELSE IF g_no_more_task /\ g_pending_task = << >>
       THEN /\ executor_pc' = "notify_main"
            /\ UNCHANGED << executor_asleep, g_pending_task, g_next_task_num,
                            closureVars, mainStateVars >>
       ELSE IF g_no_more_task
               /\ Head(g_pending_task).seq_num # g_next_task_num
       THEN /\ executor_pc' = "done"
            /\ propagate_exeption_to_main("ProgramBug")
            /\ UNCHANGED << executor_asleep, g_pending_task, g_next_task_num,
                            closureVars >>
       ELSE LET d == Drain([heap |-> g_pending_task,
                            next |-> g_next_task_num,
                            shared |-> shared,
                            executed |-> executed,
                            thrown |-> "none"])
            IN /\ g_pending_task' = d.heap
               /\ g_next_task_num' = d.next
               /\ shared' = d.shared
               /\ executed' = d.executed
               /\ IF d.thrown # "none"
                  THEN /\ executor_pc' = "done"
                       /\ propagate_exeption_to_main(d.thrown)
                       /\ UNCHANGED executor_asleep
                  ELSE IF ~g_no_more_task
                  THEN /\ executor_asleep' = TRUE
                       /\ UNCHANGED << executor_pc, mainStateVars >>
                  ELSE IF d.heap = << >>
                  THEN /\ executor_pc' = "notify_main"
                       /\ UNCHANGED << executor_asleep, mainStateVars >>
                  ELSE /\ executor_pc' = "done"
                       /\ propagate_exeption_to_main("ProgramBug")
                       /\ UNCHANGED executor_asleep
    /\ UNCHANGED << executor_early_terminating, g_no_more_task, submitted >>
    /\ UNCHANGED << main_pc, exit_code >>
    /\ UNCHANGED << configVars, readerVars, splitterVars, queueVars, extractorVars >>

smain_in_order_executor_exit ==
    /\ executor_pc = "notify_main"
    /\ executor_pc' = "done"
    /\ executor_notify_main_thread
    /\ UNCHANGED << g_pending_task, g_next_task_num,
                    executor_early_terminating, g_no_more_task,
                    executor_asleep, submitted >>
    /\ UNCHANGED << main_pc, exit_code >>
    /\ UNCHANGED << configVars, readerVars, splitterVars, queueVars, extractorVars,
                    closureVars >>

\* ------------------------------------------------------------ the program

\* A condition variable may wake a sleeper that nobody notified.
SpuriousWakeup ==
    /\ \/ /\ main_asleep
          /\ main_asleep' = FALSE
          /\ UNCHANGED << splitter_asleep, nonempty_asleep, executor_asleep >>
       \/ /\ splitter_asleep
          /\ splitter_asleep' = FALSE
          /\ UNCHANGED << main_asleep, nonempty_asleep, executor_asleep >>
       \/ /\ \E w \in nonempty_asleep :
                nonempty_asleep' = nonempty_asleep \ {w}
          /\ UNCHANGED << main_asleep, splitter_asleep, executor_asleep >>
       \/ /\ executor_asleep
          /\ executor_asleep' = FALSE
          /\ UNCHANGED << main_asleep, splitter_asleep, nonempty_asleep >>
    /\ UNCHANGED << g_main_state, g_pexcept, main_pc, exit_code >>
    /\ UNCHANGED << records, stream_pos, splitter_pc, splitter_early_terminating,
                    job_num, splitter_job >>
    /\ UNCHANGED << g_job_queue, enqueued, g_splitter_finished,
                    extractor_early_terminating, g_alive_extractor_num,
                    g_running_extractor_num >>
    /\ UNCHANGED << g_pending_task, g_next_task_num,
                    executor_early_terminating, g_no_more_task, executor_pc,
                    submitted >>
    /\ UNCHANGED << configVars, readerVars, extractorVars, closureVars >>

MainThread ==
    \/ smain_switch
    \/ start_splitter
    \/ start_splitter_reset
    \/ start_extractor
    \/ start_in_order_executor
    \/ join_splitter
    \/ notify_splitter_finished
    \/ join_extractor
    \/ notify_extractor_finished
    \/ join_in_order_executor
    \/ kill_splitter
    \/ kill_extractor
    \/ kill_in_order_executor
    \/ main_exit

SplitterThread ==
    \/ smain_splitter_loop
    \/ produce_job_to_extractor
    \/ smain_splitter_exit

ExtractorThread(w) ==
    \/ smain_extractor_top(w)
    \/ smain_extractor_woken(w)
    \/ smain_extractor_work(w)
    \/ smain_extractor_exit(w)

ExecutorThread ==
    \/ smain_in_order_executor
    \/ smain_in_order_executor_exit

Next ==
    \/ MainThread
    \/ SplitterThread
    \/ \E w \in Workers : ExtractorThread(w)
    \/ ExecutorThread
    \/ SpuriousWakeup

Spec == Init /\ [][Next]_vars

\* The runs the liveness properties are checked on.  Whether a thread
\* blocks, wakes or exits depends on a record only through the outcome of
\* its processing (a task, an exception in the extractor, an exception in
\* the closure), and an exception after the first one changes nothing in
\* propagate_exeption_to_main: one record of each outcome, one mode and
\* at most one failing record per stream cover the cases.
FairRecords ==
    { Rec(TRUE, TRUE, "other", 3, FALSE, TRUE),
      Rec(FALSE, FALSE, "other", -1, FALSE, TRUE),
      Rec(TRUE, TRUE, "other", 1, FALSE, FALSE) }

Fails(r) == ~r.wf \/ ~r.sink_ok

FairStreams ==
    { s \in Streams(FairRecords) :
        Cardinality({ i \in 1..Len(s) : Fails(s[i]) }) <= 1 }

FairInit ==
    InitWith(1..MaxThreads, FairStreams, {"dedup"}, {<< >>}, {<< >>},
             {ScalarBuild})

\* A condition variable owes nobody a wake-up that was not signalled, so
\* the fair runs are those of the threads alone.
FairNext ==
    \/ MainThread
    \/ SplitterThread
    \/ \E w \in Workers : ExtractorThread(w)
    \/ ExecutorThread

\* Every thread that can take a step eventually takes one.
FairSpec ==
    /\ FairInit
    /\ [][FairNext]_vars
    /\ WF_vars(MainThread)
    /\ WF_vars(SplitterThread)
    /\ \A w \in Workers : WF_vars(ExtractorThread(w))
    /\ WF_vars(ExecutorThread)

\* ------------------------------------------------- properties of the run

\* C1: for every worker count and interleaving the executor runs the
\* closures in ascending contiguous order from 0: the k-th closure it runs
\* is the one submitted with seq k, so none runs before its predecessors.
C1_ExecutedInOrder ==
    \A k \in 1..Len(executed) : executed[k] = k - 1

\* Two extractors submitted out of order and every closure has run.
C1_Witness ==
    /\ g_thread_num = MaxThreads
    /\ Len(executed) = MaxRecords
    /\ submitted[1] # 0

\* C2: when the input yields K records and nothing throws, K tasks are
\* submitted, one per Job, K closures are executed, and in the state
\* InOrderExecutorFinished the heap is empty and g_next_task_num is K.
C2_AllTasksRun ==
    g_main_state = "InOrderExecutorFinished" =>
        /\ g_pexcept = "none"
        /\ Len(submitted) = Len(records)
        /\ { submitted[i] : i \in 1..Len(submitted) } = 0..(Len(records) - 1)
        /\ Len(executed) = Len(records)
        /\ g_pending_task = << >>
        /\ g_next_task_num = Len(records)

C2_Witness ==
    /\ g_main_state = "InOrderExecutorFinished"
    /\ g_thread_num = MaxThreads
    /\ Len(records) = MaxRecords

\* The output of running the closures of the records one after the other
\* in stream order, and of flushing the window in the reorder mode.
RECURSIVE RunTasks(_, _)
RunTasks(tasks, sh) ==
    IF tasks = << >> THEN sh
    ELSE RunTasks(Tail(tasks), RunClosure(Head(tasks).func, sh))

RECURSIVE SequentialRun(_, _, _, _)
SequentialRun(list, stream, i, sh) ==
    IF i > Len(stream) THEN sh
    ELSE SequentialRun(list, stream, i + 1,
             RunTasks(take_actions_on_input(list, stream[i], i - 1).tasks,
                      sh))

SequentialOutput(list, stream, m) ==
    LET sh == SequentialRun(list, stream, 1, SharedInit)
    IN IF m = "reorder" THEN ReorderWindow_flush(sh.window, sh.output)
       ELSE sh.output

MainStateSuccessor ==
    { << "Initializing", "AllRunning" >>,
      << "AllRunning", "SplitterFinished" >>,
      << "SplitterFinished", "ExtractorFinished" >>,
      << "ExtractorFinished", "InOrderExecutorFinished" >> }

\* C6: the run state changes only one step forward along Initializing,
\* AllRunning, SplitterFinished, ExtractorFinished, ExecutorFinished, or
\* from one of these to Error; in Error nothing changes it any more.
C6_MainStateSteps ==
    [][ \/ g_main_state' = g_main_state
        \/ << g_main_state, g_main_state' >> \in MainStateSuccessor
        \/ g_main_state # "Error" /\ g_main_state' = "Error" ]_vars

\* The splitter has given its finished signal in a run that is in Error.
C6_Witness ==
    /\ g_main_state = "Error"
    /\ splitter_pc = "done"
    /\ ~splitter_early_terminating
    /\ stream_pos = Len(records)

\* C7: the splitter enqueues only while the queue holds fewer than HIGH*N
\* jobs, so when produce_job_to_extractor returns after an enqueue the
\* queue holds at most HIGH*N.
C7_QueueBounded ==
    [][ Len(g_job_queue') > Len(g_job_queue) =>
          /\ Len(g_job_queue) < g_thread_num * HIGH_WATRE_MARK
          /\ Len(g_job_queue') <= g_thread_num * HIGH_WATRE_MARK ]_vars

\* The queue is at the mark and the splitter waits with a Job in hand.
C7_Witness ==
    /\ Len(g_job_queue) = g_thread_num * HIGH_WATRE_MARK
    /\ splitter_pc = "produce_wait"
    /\ splitter_asleep

\* C8: the i-th record of the run gets seq i from 0, without gap or
\* repeat, and the Jobs enter the queue in ascending seq order.
C8_DenseSeq ==
    /\ \A i \in 1..Len(enqueued) :
          /\ enqueued[i].job_num = i - 1
          /\ enqueued[i].start_line_number = i
          /\ enqueued[i].xml_string = records[i]
    /\ splitter_job # NoJob =>
          splitter_job.job_num = splitter_job.start_line_number - 1

C8_Witness == Len(enqueued) = MaxRecords

\* ----------------------------------------------------------- termination

AllThreadsDone ==
    /\ splitter_pc = "done"
    /\ \A w \in Extractors : extractor_pc[w] = "done"
    /\ executor_pc = "done"

\* smain has left by its return, or by the throw of its Error case.
SmainReturned ==
    /\ main_pc \in {"returned", "exited"}
    /\ g_main_state = "InOrderExecutorFinished"

SmainRethrew ==
    /\ main_pc \in {"rethrown", "exited"}
    /\ g_main_state = "Error"

\* C4: an exception a component propagates puts the run in Error, and
\* under fair scheduling the splitter, every extractor and the executor
\* then terminate, so that main's kill and join sequence completes and
\* smain rethrows the stored exception.
C4_ErrorTerminates ==
    /\ [](g_pexcept # "none" => g_main_state = "Error")
    /\ (g_main_state = "Error") ~>
          (AllThreadsDone /\ SmainRethrew /\ g_pexcept # "none")

\* An extractor threw while the splitter had more to hand over, and main
\* has joined everybody.
C4_Witness ==
    /\ main_pc = "rethrown"
    /\ AllThreadsDone
    /\ g_pexcept = "xml_parser_error"
    /\ Len(enqueued) < Len(records)

\* C5: on a finite input on which nothing throws, under fair scheduling
\* the run reaches the executor-finished state, every thread is joined
\* and smain returns, for every worker count and interleaving.
C5_Terminates ==
    (\A i \in 1..Len(records) : ~Fails(records[i])) ~>
        /\ g_main_state = "InOrderExecutorFinished"
        /\ AllThreadsDone
        /\ SmainReturned

\* smain returned after the splitter had to wait for room in the queue.
C5_Witness ==
    /\ main_pc = "returned"
    /\ AllThreadsDone
    /\ g_thread_num = 1
    /\ Len(records) = MaxRecords

\* ---------------------------------------------------------- the dispatch

\* The runs the dispatch of take_actions_on_input is checked on: one
\* extractor, the modes whose list has one pair and the extract mode with
\* lists of several pairs, and records of the types the pairs test for, of
\* another type, without dm_log_packet, and malformed.
DispatchRecords ==
    { Rec(TRUE, TRUE, "LTE_RRC_OTA_Packet", 3, FALSE, TRUE),
      Rec(TRUE, TRUE, "LTE_PDCP_UL_Cipher_Data_PDU", 3, TRUE, TRUE),
      Rec(TRUE, TRUE, "LTE_PDCP_DL_Cipher_Data_PDU", 3, FALSE, TRUE),
      Rec(TRUE, TRUE, "other", 3, FALSE, TRUE),
      Rec(TRUE, FALSE, "other", -1, FALSE, TRUE),
      Rec(FALSE, FALSE, "other", -1, FALSE, TRUE) }

DispatchExtractors ==
    { << >>,
      << "rrc_ota" >>,
      << "all_packet_type", "rrc_ota" >>,
      << "rrc_ota", "action_pdcp_cipher_data_pdu", "all_packet_type" >>,
      << "pdcp_cipher_data_pdu", "action_pdcp_cipher_data_pdu" >>,
      << "no_such_extractor", "rrc_ota" >> }

DispatchModes == {"extract", "range"}

DispatchStreams == { s \in Streams(DispatchRecords) : Len(s) <= 2 }

DispatchInit ==
    InitWith({1}, DispatchStreams, DispatchModes, DispatchExtractors,
             {<< >>},
             {ScalarBuild})

SpecDispatch == DispatchInit /\ [][Next]_vars

\* The first pair of the list whose predicate holds for a tree.
FirstMatch(list, tree) ==
    CHOOSE i \in 1..Len(list) :
        /\ predicate(list[i], tree)
        /\ \A j \in 1..(i - 1) : ~predicate(list[j], tree)

\* C9: for every Job popped, take_actions_on_input calls the action of the
\* first pair whose predicate is true and no other, and when nothing
\* throws that action submits exactly one OrderedTask, whose seq_num is
\* the job_num of the Job.
C9_OneActionOneTask ==
    \A e \in invoked :
        /\ e.pairs # << >> =>
              e.pairs = << FirstMatch(g_action_list, e.job.xml_string) >>
        /\ e.thrown = "none" =>
              /\ Len(e.pairs) = 1
              /\ Len(e.tasks) = 1
              /\ e.tasks[1].seq_num = e.job.job_num

\* A record matched by the second pair and by the always-true last pair
\* of a list of four was dispatched, as the second Job of the run.
C9_Witness ==
    \E e \in invoked :
        /\ Len(g_action_list) = 4
        /\ e.pairs = << 2 >>
        /\ e.job.job_num = 1
        /\ e.thrown = "none"

\* ------------------------------------------------- the splitter on bytes

MaxBytes == 6

MaxFileBytes == 1

ByteStrings(n) == UNION { [1..k -> Bytes] : k \in 0..n }

\* One input file of at most MaxBytes bytes, or two of at most
\* MaxFileBytes bytes each.
SplitterInputs ==
    { << f >> : f \in ByteStrings(MaxBytes) }
      \cup { << f, g >> : f, g \in ByteStrings(MaxFileBytes) }

\* The program from its start to the end of the splitter thread, in the
\* runs in which the main thread is not scheduled between start_splitter
\* and start_extractor: nothing takes Jobs out of the queue.
SplitterInit ==
    InitWith({MaxThreads}, {<< >>}, {"dedup"}, {<< >>}, SplitterInputs,
             {ScalarBuild})

SplitterNext ==
    \/ smain_switch
    \/ start_splitter
    \/ start_splitter_reset
    \/ smain_splitter_scan
    \/ produce_job_to_extractor
    \/ smain_splitter_exit

SpecSplitter == SplitterInit /\ [][SplitterNext]_vars

\* C10: when the input ends in the middle of a record, the end of file
\* coming while the machine is not back in AngleClosed at depth 0,
\* next_ptree_string returns what it has stored, a string that begins
\* with '<' and so is not empty, and smain_splitter makes a Job of it and
\* enqueues it like any record; the text is left for the extractor to
\* reject.
C10_PartialRecordEnqueued ==
    \A i \in 1..Len(returned) :
        returned[i].kind = "partial" =>
            /\ returned[i].tree # << >>
            /\ Head(returned[i].tree) = "<"
            /\ IF i <= Len(enqueued)
               THEN enqueued[i].xml_string = returned[i].tree
               ELSE /\ i = Len(enqueued) + 1
                    /\ splitter_pc \in {"produce", "produce_wait"}
                    /\ splitter_job.xml_string = returned[i].tree

\* A file of a whole record and the beginning of another has been read
\* to its end, and the Job of the partial record is in the queue.
C10_Witness ==
    /\ Len(returned) = 2
    /\ returned[1].kind = "record"
    /\ returned[2].kind = "partial"
    /\ Len(returned[2].tree) >= 2
    /\ Len(enqueued) = 2
    /\ g_buf_reader = Len(g_inputs[1])

\* C10 as the specification has it: a partial record is discarded, so no
\* Job in the queue holds the text of one.
C10_PartialRecordDiscarded ==
    \A i \in 1..Len(enqueued) :
        i <= Len(returned) => returned[i].kind # "partial"

\* -------------------------------------------------- the stream of S5

\* The bytes of <a attr="/>" />text<b></b>.
S5Stream ==
    << "<", "a", " ", "a", "t", "t", "r", "=", "\"", "/", ">", "\"", " ",
       "/", ">", "t", "e", "x", "t", "<", "b", ">", "<", "/", "b", ">" >>

\* The two strings the stream is to be split into.
S5First == SubSeq(S5Stream, 1, 15)

S5Second == SubSeq(S5Stream, 20, 26)

\* The stream with a newline put in after its first k bytes.
S5Interleaved(k) ==
    SubSeq(S5Stream, 1, k) \o << "\n" >>
        \o SubSeq(S5Stream, k + 1, Len(S5Stream))

\* The buffer sizes of the runs that vary where the refills fall: the
\* least buffer a chunk can be read from with a byte before it, and one
\* that holds a whole file of the reader runs.
BuffSizes == {XMM_WIDTH + 1, BUFF_SIZE}

Builds == [accel : BOOLEAN, buff_size : BuffSizes]

S5Inputs ==
    { << S5Stream >> } \cup { << S5Interleaved(k) >> : k \in 0..Len(S5Stream) }

S5Init ==
    InitWith({MaxThreads}, {<< >>}, {"dedup"}, {<< >>}, S5Inputs, Builds)

SpecS5 == S5Init /\ [][SplitterNext]_vars

\* C11: fed <a attr="/>" />text<b></b>, the splitter emits two records
\* and no more: the string <a attr="/>" /> first and then <b></b>.
C11_S5TwoRecords ==
    g_inputs = << S5Stream >> =>
        /\ Len(returned) >= 1 => returned[1].tree = S5First
        /\ Len(returned) >= 2 => returned[2].tree = S5Second
        /\ Len(returned) >= 3 => returned[3].tree = << >>
        /\ Len(returned) <= 3

\* ------------------------------------------------- the buffered reader

\* The bytes of the runs of the reader: the four the code tests for and a
\* byte of value 0, which the machine takes for any other byte.
ReaderBytes == {"<", ">", "/", "\n", "NUL"}

ReaderStrings(n) == UNION { [1..k -> ReaderBytes] : k \in 0..n }

\* One input file of at most MaxBytes bytes, or two of at most MaxBytes
\* bytes together, the first not empty and of at most MaxFileBytes.
ReaderInputs ==
    { << f >> : f \in ReaderStrings(MaxBytes) }
      \cup { << f, g >> : f \in ReaderStrings(MaxFileBytes) \ { << >> },
                          g \in ReaderStrings(MaxBytes - 1) }

ReaderInit ==
    InitWith({1}, {<< >>}, {"dedup"}, {<< >>}, ReaderInputs, Builds)

SpecReader == ReaderInit /\ [][SplitterNext]_vars

\* 1 plus the number of newline bytes before byte k of a file.
LineOf(file, k) ==
    1 + Cardinality({ j \in 1..(k - 1) : file[j] = "\n" })

\* C12: for every Job of a complete record, start_line_number is 1 plus
\* the number of newlines before the record's first '<' in its file and
\* end_line_number is 1 plus the number of newlines before its terminating
\* '>', the skipped bytes between records counted and the count begun
\* anew at 1 in every file; so start_line_number <= end_line_number.
C12_LineSpan ==
    \A i \in 1..Len(enqueued) :
        returned[i].kind = "record" =>
            LET file == g_inputs[returned[i].file_idx + 1]
            IN /\ file[returned[i].first] = "<"
               /\ file[returned[i].last] = ">"
               /\ enqueued[i].start_line_number =
                      LineOf(file, returned[i].first)
               /\ enqueued[i].end_line_number =
                      LineOf(file, returned[i].last)
               /\ enqueued[i].start_line_number
                      <= enqueued[i].end_line_number

\* A record of the second file, after a first file that holds a newline:
\* it begins on line 2 of its file and ends on line 3.
C12_Witness ==
    /\ Len(g_inputs) = 2
    /\ g_inputs[1] = << "\n" >>
    /\ Len(enqueued) >= 1
    /\ returned[1].kind = "record"
    /\ returned[1].file_idx = 1
    /\ enqueued[1].start_line_number = 2
    /\ enqueued[1].end_line_number = 3

\* The build without ACCEL_AVAIL that a build is compared with.
ScalarOf(b) == [b EXCEPT !.accel = FALSE]

\* C13: on every input, bytes of value 0 and newlines inside tags
\* included, the splitter with the chunk path enabled returns from every
\* call of next_ptree_string the string, the reader position and the
\* start and end line numbers that the byte-at-a-time machine returns.
C13_AccelMatchesScalar ==
    splitter_pc = "loop" =>
        next_ptree_string(g_inputs, g_current_file_idx,
                          g_buf_reader_input, g_buf_reader,
                          g_current_line_number, g_start_line_number, build)
          = next_ptree_string(g_inputs, g_current_file_idx,
                              g_buf_reader_input, g_buf_reader,
                              g_current_line_number, g_start_line_number,
                              ScalarOf(build))

\* The build whose buffer takes a whole file of the reader runs in one
\* refill.
WholeFileOf(b) == [b EXCEPT !.buff_size = BUFF_SIZE]

\* C14: what the splitter emits depends on the input bytes only and not
\* on where the refills of the buffer fall: every call of
\* next_ptree_string returns the string, the reader position and the line
\* numbers it returns when the whole file comes in one refill.
C14_RefillIndependent ==
    splitter_pc = "loop" =>
        next_ptree_string(g_inputs, g_current_file_idx,
                          g_buf_reader_input, g_buf_reader,
                          g_current_line_number, g_start_line_number, build)
          = next_ptree_string(g_inputs, g_current_file_idx,
                              g_buf_reader_input, g_buf_reader,
                              g_current_line_number, g_start_line_number,
                              WholeFileOf(build))

\* ------------------------------------------------------- parse failures

\* Extractor w holds a Job whose text pt::read_xml rejects.
ParseFails(w) ==
    extractor_pc[w] = "work" /\ ~extractor_job[w].xml_string.wf

\* C15: a record that fails to parse in an extractor is fatal.  The step
\* of the worker on it ends the worker, submits no task and leaves the
\* main state Error; a worker that has ended never takes another Job; the
\* exit code of such a run is never 0; and under fair scheduling main
\* exits with code 1.
C15_ParseFailureFatal ==
    /\ [][\A w \in Workers :
            ParseFails(w) /\ extractor_pc'[w] # "work" =>
                /\ extractor_pc'[w] = "done"
                /\ g_main_state' = "Error"
                /\ g_pexcept' # "none"
                /\ submitted' = submitted
                /\ g_pending_task' = g_pending_task]_vars
    /\ [][\A w \in Workers :
            extractor_pc[w] = "done" => extractor_pc'[w] = "done"]_vars
    /\ [](g_pexcept = "xml_parser_error" => exit_code \in {-1, 1})
    /\ ((\E w \in Workers : ParseFails(w)) ~> exit_code = 1)

\* main has exited with code 1 on the parse error of the second record
\* of a stream of three.
C15_Witness ==
    /\ exit_code = 1
    /\ g_pexcept = "xml_parser_error"
    /\ Len(records) = 3
    /\ ~records[2].wf
    /\ Len(executed) = 1

\* ------------------------------------------------- who touches the state

ParsableTimestamp(r) == r.wf /\ r.paths /\ r.rawtime # -1

\* C17: in the dedup mode, for every worker count, a record with a
\* parsable timestamp whose closure has run is in the output exactly when
\* its timestamp is at least every timestamp seen before it in the input,
\* and the timestamps of the output never decrease.  (Timestamps are
\* those at or after the initial value 0 of g_latest_seen_timestamp.)
C17_DedupKeepsNewest ==
    mode = "dedup" =>
        /\ \A k \in 1..Len(executed) :
              ParsableTimestamp(records[k]) =>
                 ((\E i \in 1..Len(shared.output) : shared.output[i] = k - 1)
                    <=> \A j \in 1..(k - 1) :
                           ParsableTimestamp(records[j]) =>
                              records[j].rawtime <= records[k].rawtime)
        /\ \A a, b \in 1..Len(shared.output) :
              a < b => records[shared.output[a] + 1].rawtime
                          <= records[shared.output[b] + 1].rawtime

\* Two workers, three closures run: an older packet was dropped between
\* two that were written, the second of them with an equal timestamp.
C17_Witness ==
    /\ mode = "dedup"
    /\ g_thread_num = MaxThreads
    /\ Len(executed) = MaxRecords
    /\ shared.output = << 0, 2 >>
    /\ records[1].rawtime = records[3].rawtime
    /\ records[2].rawtime < records[1].rawtime

\* ---------------------------------------------------------- reorder mode

\* Packets of four timestamps, one or three apart, and a malformed one.
ReorderRecords ==
    { Rec(TRUE, TRUE, "other", t, FALSE, TRUE) : t \in {1, 2, 4, 7} }
       \cup { Rec(FALSE, FALSE, "other", -1, FALSE, TRUE) }

ReorderInit ==
    InitWith(1..MaxThreads, Streams(ReorderRecords), {"reorder"}, {<< >>},
             {<< >>}, {ScalarBuild})

SpecReorder == ReorderInit /\ [][Next]_vars

\* Where the packet of seq n stands in the output, 0 when it is not there.
OutputIndex(n) ==
    IF \E i \in 1..Len(shared.output) : shared.output[i] = n
    THEN CHOOSE i \in 1..Len(shared.output) : shared.output[i] = n
    ELSE 0

\* P occurs before Q in the input and has the greater timestamp.
ReversePair(p, q) ==
    /\ p < q
    /\ ParsableTimestamp(records[p])
    /\ ParsableTimestamp(records[q])
    /\ records[p].rawtime > records[q].rawtime

\* C18: in the reorder mode, of a reverse pair P, Q whose timestamps
\* differ by less than the window size, Q precedes P in the output,
\* whatever other packets occur: P is never written while Q is not, and
\* never before Q.
C18_ReversePairSwapped ==
    \A p, q \in 1..Len(records) :
       (/\ ReversePair(p, q)
        /\ records[p].rawtime - records[q].rawtime < OooTolerance
        /\ OutputIndex(p - 1) # 0
        /\ OutputIndex(q - 1) # 0)
          => OutputIndex(q - 1) < OutputIndex(p - 1)

\* Every timestamp seen before the q-th record is within the tolerance of
\* that of the p-th: the p-th packet is still in the window then.
StillInWindow(p, q) ==
    \A j \in 1..(q - 1) :
       ParsableTimestamp(records[j]) =>
          records[j].rawtime - records[p].rawtime <= OooTolerance

\* C19 (as the code has it): of a reverse pair P, Q whose timestamps
\* differ by more than the window size, Q is written by the very update
\* that inserts it; it goes out before P when P is still in the window at
\* that moment, and after P (arrival order) only when an earlier packet
\* had already pushed P out.
C19_LateOldPacketWrittenAtOnce ==
    \A p, q \in 1..Len(records) :
       (/\ ReversePair(p, q)
        /\ records[p].rawtime - records[q].rawtime > OooTolerance
        /\ q <= Len(executed))
          => /\ OutputIndex(q - 1) # 0
             /\ StillInWindow(p, q) =>
                   \/ OutputIndex(p - 1) = 0
                   \/ OutputIndex(q - 1) < OutputIndex(p - 1)
             /\ ~StillInWindow(p, q) =>
                   /\ OutputIndex(p - 1) # 0
                   /\ OutputIndex(p - 1) < OutputIndex(q - 1)

\* A run has ended with both cases in it: the packets of timestamps 4, 7
\* and 1 came in this order, so 4 went out before 1 and 1 before 7.
C19_Witness ==
    /\ main_pc = "exited"
    /\ g_thread_num = MaxThreads
    /\ Len(records) = MaxRecords
    /\ records[1].rawtime = 4
    /\ records[2].rawtime = 7
    /\ records[3].rawtime = 1
    /\ shared.output = << 0, 2, 1 >>

\* C19 as stated: a reverse pair whose timestamps differ by more than
\* the window size is written in arrival order, P before Q.
C19_ArrivalOrder ==
    \A p, q \in 1..Len(records) :
       (/\ ReversePair(p, q)
        /\ records[p].rawtime - records[q].rawtime > OooTolerance
        /\ OutputIndex(p - 1) # 0
        /\ OutputIndex(q - 1) # 0)
          => OutputIndex(p - 1) < OutputIndex(q - 1)

\* ------------------------------------------------------ input of no record

\* No byte of any input file opens a tag.
ZeroRecordInput ==
    \A f \in 1..Len(g_inputs) :
       \A i \in 1..Len(g_inputs[f]) : g_inputs[f][i] # "<"

\* C20: on an input of no record next_ptree_string returns the empty
\* string at its first call, so the splitter makes no Job, numbers none
\* and enqueues none.
C20_ZeroRecordsNoJob ==
    ZeroRecordInput =>
        /\ \A i \in 1..Len(returned) : returned[i].tree = << >>
        /\ job_num = 0
        /\ splitter_job = NoJob
        /\ enqueued = << >>

\* ------------------------------------------------------------- exit code

\* C21: the exit code is 0 exactly when the run succeeded; an exception
\* that reached main, of whatever type, gives a code other than 0.
C21_ExitZeroIffSuccess ==
    main_pc = "exited" =>
        (exit_code = 0 <=> (g_pexcept = "none"
                              /\ g_main_state = "InOrderExecutorFinished"))

\* --------------------------------------------------- the reference machine

\* One step of the machine as the specification words it.
RefStep(state, depth, c) ==
    CASE state = "AngleOpen" ->
            IF c = "/" THEN << "ClosingSubtree", depth >>
            ELSE << "CreatingSubtree", depth >>
      [] state = "CreatingSubtree" ->
            IF c = ">" THEN << "AngleClosed", depth + 1 >>
            ELSE IF c = "/" THEN << "CreatingField", depth >>
            ELSE << state, depth >>
      [] state = "CreatingField" ->
            IF c = ">" THEN << "AngleClosed", depth >>
            ELSE << "CreatingSubtree", depth >>
      [] state = "ClosingSubtree" ->
            IF c = ">" THEN << "AngleClosed", depth - 1 >>
            ELSE << state, depth >>
      [] state = "AngleClosed" ->
            IF c = "<" THEN << "AngleOpen", depth >>
            ELSE << state, depth >>

\* The records of a file by the reference machine, each as the places of
\* its first and last byte: bytes are skipped up to a '<', every byte from
\* it on is part of the record, and the record ends the first time the
\* machine is in AngleClosed at depth 0.
RECURSIVE RefScan(_, _, _, _, _, _)
RefScan(file, i, state, depth, start, acc) ==
    IF i > Len(file) THEN acc
    ELSE IF state = "Skip"
    THEN IF file[i] = "<"
         THEN RefScan(file, i + 1, "AngleOpen", 0, i, acc)
         ELSE RefScan(file, i + 1, "Skip", 0, 0, acc)
    ELSE LET n == RefStep(state, depth, file[i])
         IN IF n[1] = "AngleClosed" /\ n[2] = 0
            THEN RefScan(file, i + 1, "Skip", 0, 0,
                         Append(acc, [first |-> start, last |-> i]))
            ELSE RefScan(file, i + 1, n[1], n[2], start, acc)

RefRecords(file) == RefScan(file, 1, "Skip", 0, 0, << >>)

\* The complete records next_ptree_string has returned from file f.
RECURSIVE ReturnedRecords(_, _)
ReturnedRecords(rs, f) ==
    IF rs = << >> THEN << >>
    ELSE IF Head(rs).kind = "record" /\ Head(rs).file_idx = f - 1
    THEN << Head(rs) >> \o ReturnedRecords(Tail(rs), f)
    ELSE ReturnedRecords(Tail(rs), f)

\* next_ptree_string has returned the empty string: every file is read.
ReadToTheEnd ==
    returned # << >> /\ returned[Len(returned)].kind = "eof"

MaxPieces == 4

Pieces ==
    { << b >> : b \in Bytes }
       \cup { << "<", "x", "/", ">" >>, << "<", "x", ">", "<", "/", ">" >> }

RECURSIVE Flatten(_)
Flatten(ps) == IF ps = << >> THEN << >> ELSE Head(ps) \o Flatten(Tail(ps))

MachineInputs ==
    { << Flatten(ps) >> : ps \in UNION { [1..k -> Pieces] : k \in 0..MaxPieces } }

MachineInit ==
    InitWith({MaxThreads}, {<< >>}, {"dedup"}, {<< >>}, MachineInputs,
             {ScalarBuild})

SpecMachine == MachineInit /\ [][SplitterNext]_vars

C23_ExtractorFinishedAllDone ==
    /\ g_main_state \in {"ExtractorFinished", "InOrderExecutorFinished"} =>
          /\ g_job_queue = << >>
          /\ g_alive_extractor_num = 0
          /\ \A w \in Extractors :
                extractor_pc[w] = "done" /\ extractor_job[w] = NoJob
          /\ Len(submitted) = Len(enqueued)
          /\ \A i \in 1..Len(enqueued) :
                /\ Cardinality({ k \in 1..Len(submitted) :
                                   submitted[k] = enqueued[i].job_num }) = 1
                /\ Cardinality({ e \in invoked : e.job = enqueued[i] }) = 1
    /\ (g_thread_num > 0 /\ main_pc # "switch" /\ g_alive_extractor_num = 0
          /\ \E w \in Extractors : extractor_pc[w] # "unborn") =>
          \A w \in Extractors :
             extractor_pc[w] \in {"notify_main", "done"}
                /\ extractor_job[w] = NoJob
    /\ (\E w \in Extractors : extractor_pc[w] = "work") =>
          g_alive_extractor_num > 0

\* Two extractors, three Jobs: the run is in ExtractorFinished and the
\* extractors submitted out of the order of the Jobs.
C23_Witness ==
    /\ g_main_state = "ExtractorFinished"
    /\ g_thread_num = MaxThreads
    /\ Len(enqueued) = MaxRecords
    /\ submitted[1] # 0

\* ------------------------------------------------ the order of the notices

\* C24: g_splitter_finished is set only when the splitter thread has
\* ended and g_no_more_task only when every extractor thread has ended;
\* so no task is submitted once g_no_more_task is set, and the splitter is
\* never in produce_job_to_extractor with g_splitter_finished set, which
\* is the only way into its ProgramBug branch.
C24_NoticesAfterJoins ==
    /\ [][(g_splitter_finished' /\ ~g_splitter_finished)
             => splitter_pc = "done"]_vars
    /\ [][(g_no_more_task' /\ ~g_no_more_task)
             => \A w \in Extractors : extractor_pc[w] = "done"]_vars
    /\ [][g_no_more_task => submitted' = submitted]_vars
    /\ [](g_splitter_finished =>
            splitter_pc \notin {"produce", "produce_wait"})
    /\ [](g_no_more_task =>
             \A w \in Extractors : extractor_pc[w] = "done")

\* Both notices have been given in a run of two extractors that
\* submitted three tasks, not in the order of the Jobs.
C24_Witness ==
    /\ g_splitter_finished
    /\ g_no_more_task
    /\ g_thread_num = MaxThreads
    /\ Len(submitted) = MaxRecords
    /\ submitted[1] # 0

\* -------------------------------------------------- the executor cancelled

\* smain has called kill_in_order_executor.
ExecutorKilled ==
    \/ main_pc \in {"Error_join_splitter", "Error_join_extractor",
                    "Error_join_in_order_executor", "rethrown"}
    \/ main_pc = "exited" /\ g_main_state = "Error"

\* C25: once kill_in_order_executor has been called the flag is set, no
\* closure is run any more (nothing is executed, g_next_task_num and the
\* state of the closures stay), and the executor's next pass ends the
\* thread with the heap as it is, tasks in order at its top or not.
C25_KilledExecutorRunsNothing ==
    /\ [](ExecutorKilled => executor_early_terminating)
    /\ [][ExecutorKilled =>
             /\ executed' = executed
             /\ g_next_task_num' = g_next_task_num
             /\ shared' = shared]_vars
    /\ [][(ExecutorKilled /\ executor_pc = "wait" /\ executor_pc' # "wait")
             => /\ executor_pc' = "done"
                /\ g_pending_task' = g_pending_task]_vars

\* The executor has ended after the kill with the task it waited for at
\* the top of the heap, a task whose closure would not have thrown.
C25_Witness ==
    /\ ExecutorKilled
    /\ executor_pc = "done"
    /\ Runnable(g_pending_task, g_next_task_num)
    /\ Head(g_pending_task).func.sink_ok

\* ------------------------------------------------- a closure that throws

\* The step in which a closure run by the executor throws: the executor
\* was not cancelled, and it ends with the task still at the top of the
\* heap and in order.
ClosureThrows ==
    /\ executor_pc = "wait"
    /\ executor_pc' = "done"
    /\ ~executor_early_terminating
    /\ Runnable(g_pending_task', g_next_task_num')
    /\ ~Head(g_pending_task').func.sink_ok

\* C26 (as the code has it): when a closure throws, the run is in Error
\* after the step and an exception is stored, the closure's own unless an
\* earlier one already is (propagate_exeption_to_main keeps the first);
\* the task stays on the heap with g_next_task_num at its seq, and the
\* executor, ended, runs nothing more, so neither that seq nor a higher
\* one is ever executed.
C26_ThrowingClosureStopsExecutor ==
    /\ [][ClosureThrows =>
             /\ g_main_state' = "Error"
             /\ g_pexcept' = IF g_main_state = "Error" THEN g_pexcept
                             ELSE "closure_error"
             /\ g_pexcept' # "none"
             /\ g_next_task_num' = Head(g_pending_task').seq_num]_vars
    /\ [][executor_pc = "done" =>
             /\ executed' = executed
             /\ g_next_task_num' = g_next_task_num
             /\ executor_pc' = "done"]_vars
    /\ [](\A k \in 1..Len(executed) :
             \A j \in 1..(executed[k] + 1) : records[j].sink_ok)

\* The executor has ended on the throw of the second closure, after an
\* extractor had already stored the exception of a malformed third
\* record: the first closure ran, the stored exception is the extractor's.
C26_Witness ==
    /\ executor_pc = "done"
    /\ ~executor_early_terminating
    /\ g_pexcept = "xml_parser_error"
    /\ executed = << 0 >>
    /\ Runnable(g_pending_task, g_next_task_num)
    /\ ~Head(g_pending_task).func.sink_ok

\* C26 as stated: whenever a closure throws, its exception is the one
\* stored.
C26_ClosureExceptionStored ==
    [][ClosureThrows => g_pexcept' = "closure_error"]_vars

\* --------------------------------------- a gap in the sequence numbers

\* Records for the example list: a packet with a timestamp pair, one
\* without, and a string that does not parse.
GapRecords ==
    { Rec(TRUE, TRUE, "other", 4, FALSE, TRUE),
      Rec(TRUE, TRUE, "other", -1, FALSE, TRUE),
      Rec(FALSE, FALSE, "other", -1, FALSE, TRUE) }

\* Runs under the example list, whose action may submit no task for a
\* Job, beside runs under the dedup list, whose action submits one.
GapInit == InitWith(1..MaxThreads, Streams(GapRecords), {"example", "dedup"},
                    {<< >>}, {<< >>}, {ScalarBuild})

SpecGap == GapInit /\ [][Next]_vars

\* No more task will come, and the task at the top of the heap is not the
\* one the executor waits for.
OutOfOrderAtEnd ==
    /\ g_no_more_task
    /\ g_pending_task # << >>
    /\ Head(g_pending_task).seq_num # g_next_task_num

\* C27: an executor pass that finds, with the no-more-task flag set, a
\* non-empty heap whose least seq is not next_seq ends the thread by a
\* ProgramBug: the run is in Error afterwards (the ProgramBug stored
\* unless an earlier exception is), and the pass runs no closure out of
\* order: what has been executed is always 0, 1, 2, ... and the waiting
\* task stays on the heap.  The executor does not sleep once the flag is
\* set.  Under a list whose action submits one task per Job the heap is
\* never in that condition.
C27_GapRaisesProgramBug ==
    /\ [][(/\ executor_pc = "wait"
           /\ executor_pc' # "wait"
           /\ ~executor_early_terminating
           /\ g_no_more_task
           /\ g_pending_task' # << >>
           /\ Head(g_pending_task').seq_num # g_next_task_num')
          => /\ executor_pc' = "done"
             /\ g_main_state' = "Error"
             /\ g_pexcept' = IF g_main_state = "Error" THEN g_pexcept
                             ELSE "ProgramBug"
             /\ \A k \in 1..Len(executed') : executed'[k] = k - 1]_vars
    /\ [](\A k \in 1..Len(executed) : executed[k] = k - 1)
    /\ [](executor_pc = "wait" /\ g_no_more_task => ~executor_asleep)
    /\ [](mode # "example" => ~OutOfOrderAtEnd)

\* The Job in the middle had no timestamp pair: task 0 ran, task 2 waits
\* with next_seq at 1, and the executor has ended by the ProgramBug.
C27_Witness ==
    /\ mode = "example"
    /\ OutOfOrderAtEnd
    /\ executed = << 0 >>
    /\ g_next_task_num = 1
    /\ Head(g_pending_task).seq_num = 2
    /\ executor_pc = "done"
    /\ g_main_state = "Error"
    /\ g_pexcept = "ProgramBug"

\* ------------------------------------------------- cancelled extractors

\* C28: once kill_extractor has set the flag no worker sleeps on the
\* non-empty condition, and a worker that was waiting there exits when it
\* runs: it goes from the wait to the end of the thread, and under fair
\* scheduling it gets there.  No worker pops a Job any more, the queue
\* stays as it is, and a task submitted afterwards is the task of a Job
\* some worker already held when the step was taken, hence one popped
\* before the flag was set.
C28_KilledExtractorsStop ==
    /\ [](extractor_early_terminating => nonempty_asleep = {})
    /\ [][extractor_early_terminating =>
            /\ g_job_queue' = g_job_queue
            /\ \A w \in Workers :
                  /\ extractor_pc'[w] = "work" => extractor_pc[w] = "work"
                  /\ extractor_pc[w] = "wait" /\ extractor_pc'[w] # "wait"
                        => extractor_pc'[w] = "done"
            /\ submitted' # submitted =>
                  \E w \in Workers :
                     /\ extractor_pc[w] = "work"
                     /\ submitted' =
                           Append(submitted, extractor_job[w].job_num)]_vars
    /\ \A w \in Workers :
          (extractor_early_terminating /\ extractor_pc[w] = "wait")
             ~> (extractor_pc[w] = "done")

\* The flag is set while one worker waits on the non-empty condition,
\* another holds a Job it popped before, and a Job is left in the queue.
C28_Witness ==
    /\ extractor_early_terminating
    /\ g_job_queue # << >>
    /\ \E w, v \in Workers :
          /\ extractor_pc[w] = "wait"
          /\ extractor_pc[v] = "work"

\* ---------------------------------------------------- a killed splitter

\* main has called kill_splitter and has not yet joined the splitter.
SplitterKilled ==
    main_pc \in {"Error_kill_extractor", "Error_kill_in_order_executor",
                 "Error_join_splitter"}

\* C29: kill_splitter stops the splitter prematurely: the call leaves the
\* splitter's terminating flag true, the splitter's next test of the loop
\* condition after the call leaves the loop without scanning any more of
\* the input, and the splitter does not move the run to the
\* splitter-finished state.
C29_KillSplitterStops ==
    [][/\ (main_pc = "Error_kill_splitter" /\ main_pc' # main_pc)
             => splitter_early_terminating'
       /\ (SplitterKilled /\ splitter_pc = "loop" /\ splitter_pc' # "loop")
             => splitter_pc' = "after_loop" /\ stream_pos' = stream_pos
       /\ (SplitterKilled /\ g_main_state' = "SplitterFinished")
             => g_main_state = "SplitterFinished"]_vars

\* ------------------------------------------------------- back-pressure

\* Inputs long enough for the queue of MaxThreads workers to fill to the
\* high mark with a Job to spare.
PressureLen == MaxThreads * HIGH_WATRE_MARK + 1

PressureRecords ==
    { Rec(TRUE, TRUE, "other", 4, FALSE, TRUE),
      Rec(FALSE, FALSE, "other", -1, FALSE, TRUE) }

PressureStreams ==
    { s \in [1..PressureLen -> PressureRecords] :
        Cardinality({ i \in 1..PressureLen : Fails(s[i]) }) <= 1 }

PressureInit ==
    InitWith({MaxThreads}, PressureStreams, {"dedup"}, {<< >>}, {<< >>},
             {ScalarBuild})

SpecPressure == PressureInit /\ [][Next]_vars

\* C30: a splitter that has blocked in the wait of
\* produce_job_to_extractor enqueues its Job only when the queue has
\* dropped to LOW_WATER_MARK * g_thread_num or below.  (When the run is
\* cancelled the call returns without enqueueing.)
C30_Hysteresis ==
    [][(splitter_pc = "produce_wait" /\ enqueued' # enqueued)
          => Len(g_job_queue) <= g_thread_num * LOW_WATER_MARK]_vars

\* ------------------------------------------------ the low-water signal

\* A step in which a worker pops a Job.
PopsJob == Len(g_job_queue') = Len(g_job_queue) - 1

\* C31 (as the code has it): the worker that pops a Job signals the
\* splitter's non-full condition exactly when the queue held
\* LOW_WATER_MARK * g_thread_num Jobs or fewer before the pop, that is
\* fewer than that after it: a splitter asleep in the wait is woken by
\* the pop in that case and left asleep otherwise.
C31_SignalBelowLowMark ==
    [][PopsJob =>
         (splitter_asleep' <=>
            /\ splitter_asleep
            /\ Len(g_job_queue) > g_thread_num * LOW_WATER_MARK)]_vars

\* The splitter, blocked with the queue at the high mark, has been woken
\* by the worker whose pop emptied the queue; nobody cancelled the run.
C31_Witness ==
    /\ splitter_pc = "produce_wait"
    /\ ~splitter_asleep
    /\ ~extractor_early_terminating
    /\ Len(g_job_queue) < g_thread_num * LOW_WATER_MARK
    /\ \E w \in Workers : extractor_pc[w] = "work"

\* C31 (as stated): a pop that leaves LOW_WATER_MARK * g_thread_num Jobs
\* or fewer in the queue signals the non-full condition, the boundary
\* included, so the splitter is not asleep after it.
C31_SignalAtLowMarkAfterPop ==
    [][(PopsJob /\ Len(g_job_queue') <= g_thread_num * LOW_WATER_MARK)
          => ~splitter_asleep']_vars

\* ------------------------------------------------------------ the start

\* The splitter, every extractor and the executor have been spawned.
AllSpawned ==
    /\ splitter_pc # "unborn"
    /\ \A w \in Extractors : extractor_pc[w] # "unborn"
    /\ executor_pc # "unborn"

NoneSpawned ==
    /\ splitter_pc = "unborn"
    /\ \A w \in Workers : extractor_pc[w] = "unborn"
    /\ executor_pc = "unborn"

\* main is between start_splitter and the return of
\* start_in_order_executor.
Starting ==
    main_pc \in {"start_splitter", "start_splitter_reset", "start_extractor",
                 "start_in_order_executor"}

\* A step that spawns a component thread.
Spawns ==
    \/ splitter_pc = "unborn" /\ splitter_pc' # "unborn"
    \/ executor_pc = "unborn" /\ executor_pc' # "unborn"
    \/ \E w \in Workers : extractor_pc[w] = "unborn"
                             /\ extractor_pc'[w] # "unborn"

PendingSeqs == { g_pending_task[i].seq_num : i \in 1..Len(g_pending_task) }

\* C33 (as the code has it): between the passes of the executor every
\* task in the heap has seq >= g_next_task_num, and none has a seq that
\* has been executed.  The least seq is strictly greater than
\* g_next_task_num, or the heap empty, as long as the executor sleeps in
\* its wait without a pending notification; a task with seq equal to
\* g_next_task_num waits in the heap from its insertion until the
\* executor's next pass.
C33_HeapAtRest ==
    /\ [](\A n \in PendingSeqs : n >= g_next_task_num)
    /\ [](\A k \in 1..Len(executed) : executed[k] \notin PendingSeqs)
    /\ [](executor_pc = "wait" /\ executor_asleep =>
             ~Runnable(g_pending_task, g_next_task_num))

\* The executor, in its wait after a pass that ran a closure, has been
\* handed the task it waits for and has not run yet; another task waits
\* behind it.
C33_Witness ==
    /\ executor_pc = "wait"
    /\ ~executor_asleep
    /\ executed # << >>
    /\ Runnable(g_pending_task, g_next_task_num)
    /\ Len(g_pending_task) > 1

\* C33 (as stated): whenever the executor is in its wait the heap is
\* empty or its least seq is strictly greater than g_next_task_num.
C33_MinAboveNextWhenWaiting ==
    executor_pc = "wait" =>
       \/ g_pending_task = << >>
       \/ Head(g_pending_task).seq_num > g_next_task_num

\* ------------------------------------------------- the end of the list

\* The modes of parse_option.
OptionModes == {"extract", "range", "dedup", "reorder"}

\* The last pair of a list has the predicate `return true`.
EndsInTautology(list) == list # << >> /\ list[Len(list)].always

\* C34: for every mode and every list of enabled extractor names the
\* action list built at startup is non-empty and ends in a pair whose
\* predicate is always true, so the scan of take_actions_on_input over
\* it never falls off the end: neither for any tree, nor for any Job of
\* a run, does it throw the ProgramBug of the exhausted list.
C34_ListEndsInTautology ==
    /\ \A m \in OptionModes : \A enabled \in DispatchExtractors :
          /\ EndsInTautology(ActionListOf(m, enabled))
          /\ \A tree \in DispatchRecords :
                ScanActionList(ActionListOf(m, enabled), tree, 1).thrown
                   # "ProgramBug"
    /\ EndsInTautology(g_action_list)
    /\ \A e \in invoked : ~(e.pairs = << >> /\ e.thrown = "ProgramBug")

\* Under a list that begins with an unknown name, a Job no extractor's
\* predicate holds for was dispatched to the last pair.
C34_Witness ==
    \E e \in invoked :
        /\ g_action_list =
              initialize_action_list_with_extractors(
                 << "no_such_extractor", "rrc_ota" >>)
        /\ e.job.xml_string.type_id = "other"
        /\ e.pairs = << Len(g_action_list) >>
        /\ e.thrown = "none"

\* ------------------------------------------------ the window's invariant

\* The timestamps an update is probed with.
MaxTimestamp == 8

\* The difference between the newest and the oldest timestamp held.
WindowSpread(window) ==
    IF window = << >> THEN 0
    ELSE window[Len(window)].timestamp - Head(window).timestamp

\* C35: after every ReorderWindow::update the window spans at most the
\* tolerance.  For every window a run reaches and every timestamp the
\* next update may bring: the packets the call evicts are the oldest of
\* the window, written in ascending order of timestamp; what stays is
\* the rest, within the tolerance; and the packet with the largest
\* timestamp is never evicted, so the window is not empty afterwards.
C35_WindowWithinTolerance ==
    /\ WindowSpread(shared.window) <= OooTolerance
    /\ \A t \in 0..MaxTimestamp :
          LET ins == WindowInsert(shared.window,
                                  [timestamp |-> t, str |-> -1])
              r == ReorderWindow_update(shared.window, << >>, t, -1)
              k == Len(r.out)
          IN /\ \A i, j \in 1..Len(ins) :
                   i < j => ins[i].timestamp <= ins[j].timestamp
             /\ k < Len(ins)
             /\ \A i \in 1..k : r.out[i] = ins[i].str
             /\ r.window = SubSeq(ins, k + 1, Len(ins))
             /\ r.window[Len(r.window)].timestamp
                   = ins[Len(ins)].timestamp
             /\ WindowSpread(r.window) <= OooTolerance
             /\ \A i \in 1..k :
                   ins[Len(ins)].timestamp - ins[i].timestamp > OooTolerance

\* The update of the third packet evicted the two before it, the older
\* one first, and kept the packet it brought.
C35_Witness ==
    /\ mode = "reorder"
    /\ Len(records) = 3
    /\ records[1].rawtime = 1
    /\ records[2].rawtime = 2
    /\ records[3].rawtime = 7
    /\ shared.output = << 0, 1 >>
    /\ shared.window = << [timestamp |-> 7, str |-> 2] >>

\* ------------------------------------------- the output of a reorder run

\* Records for the reorder mode with a packet whose timestamp does not
\* scan: two timestamps further apart than the window, that packet, and
\* a string that does not parse.
PermuteRecords ==
    { Rec(TRUE, TRUE, "other", 4, FALSE, TRUE),
      Rec(TRUE, TRUE, "other", 1, FALSE, TRUE),
      Rec(TRUE, TRUE, "other", -1, FALSE, TRUE),
      Rec(FALSE, FALSE, "other", -1, FALSE, TRUE) }

PermuteInit ==
    InitWith(1..MaxThreads, Streams(PermuteRecords), {"reorder"}, {<< >>},
             {<< >>}, {ScalarBuild})

SpecPermute == PermuteInit /\ [][Next]_vars

\* The packets written and the packets held, in that order.
WrittenAndHeld ==
    shared.output
       \o [i \in 1..Len(shared.window) |-> shared.window[i].str]

\* C36: in the reorder mode every packet with a parsable timestamp whose
\* closure has run is either in the output or in the window, once; on a
\* successful run, after the flush of cleanup, the window is empty and
\* the output holds each record of the input that has a parsable
\* timestamp exactly once and nothing else, records of equal timestamp
\* in their order of arrival.
C36_OutputIsPermutation ==
    /\ \A i, j \in 1..Len(WrittenAndHeld) :
          i # j => WrittenAndHeld[i] # WrittenAndHeld[j]
    /\ { WrittenAndHeld[i] : i \in 1..Len(WrittenAndHeld) }
          = { executed[k] : k \in 1..Len(executed) }
               \cap { n \in 0..(Len(records) - 1) :
                         ParsableTimestamp(records[n + 1]) }
    /\ (main_pc = "exited" /\ g_pexcept = "none") =>
          /\ shared.window = << >>
          /\ { shared.output[i] : i \in 1..Len(shared.output) }
                = { n \in 0..(Len(records) - 1) :
                       ParsableTimestamp(records[n + 1]) }
          /\ \A a, b \in 1..Len(shared.output) :
                (/\ a < b
                 /\ records[shared.output[a] + 1].rawtime
                       = records[shared.output[b] + 1].rawtime)
                   => shared.output[a] < shared.output[b]

\* A successful run on two packets of one timestamp with a packet of
\* unparsable timestamp between them: the flush wrote the two in their
\* order of arrival.
C36_Witness ==
    /\ main_pc = "exited"
    /\ g_pexcept = "none"
    /\ Len(records) = 3
    /\ records[1].rawtime = 4
    /\ records[2] = Rec(TRUE, TRUE, "other", -1, FALSE, TRUE)
    /\ records[3].rawtime = 4
    /\ shared.output = << 0, 2 >>

\* ------------------------------------------------- the output so far

\* s is an initial part of t.
IsPrefix(s, t) == Len(s) <= Len(t) /\ s = SubSeq(t, 1, Len(s))

\* The record can have no task: it does not parse, or its action throws
\* on the tree before it submits.
CannotSubmit(r) == ~r.wf \/ ~r.paths

\* C37: at every point of every run the closures executed are those of
\* seq 0 .. g_next_task_num - 1, in that order.  In the dedup mode what
\* has been written is what the sequential run writes on the first
\* g_next_task_num records, an initial part of what it writes on the
\* whole input.  When the record of seq k cannot have a task, no closure
\* of seq k or more is ever executed.
C37_OutputIsPrefix ==
    /\ Len(executed) = g_next_task_num
    /\ \A k \in 1..Len(executed) : executed[k] = k - 1
    /\ mode = "dedup" =>
          /\ shared.output =
                SequentialRun(g_action_list,
                              SubSeq(records, 1, g_next_task_num), 1,
                              SharedInit).output
          /\ IsPrefix(shared.output,
                      SequentialOutput(g_action_list, records, mode))
    /\ \A k \in 1..Len(records) :
          CannotSubmit(records[k]) =>
             \A i \in 1..Len(executed) : executed[i] < k - 1

\* The second record did not parse: the run has ended with the first
\* packet written and the third packet's closure submitted and never run.
C37_Witness ==
    /\ main_pc = "exited"
    /\ mode = "dedup"
    /\ Len(records) = 3
    /\ ~records[2].wf
    /\ executed = << 0 >>
    /\ shared.output = << 0 >>
    /\ Len(g_pending_task) = 1
    /\ Head(g_pending_task).seq_num = 2

\* ------------------------------------------------- the stored exception

\* C38: the run is in Error exactly when an exception is stored.  The
\* step that stores one is the step into Error; from then on no step
\* changes the state or the stored exception, whoever else throws, so
\* the exception stored is the one of the first call.  smain, at the end
\* of its Error case, finds the exception stored and rethrows it: it
\* never takes the branch of the null pointer.
C38_FirstExceptionKept ==
    /\ [](g_main_state = "Error" <=> g_pexcept # "none")
    /\ [][g_main_state = "Error" =>
             g_main_state' = "Error" /\ g_pexcept' = g_pexcept]_vars
    /\ [][(main_pc = "Error_join_in_order_executor" /\ main_pc' # main_pc)
            => /\ main_pc' = "rethrown"
               /\ g_pexcept # "none"
               /\ g_pexcept' = g_pexcept]_vars

\* Two extractors each failed to parse a record, each calling
\* propagate_exeption_to_main: main has rethrown the parse error that
\* was stored.
C38_Witness ==
    /\ main_pc = "rethrown"
    /\ g_pexcept = "xml_parser_error"
    /\ Cardinality({ e \in invoked : e.thrown # "none" }) = 2


\* ------------------------------------------- the index of the current file

\* Two input files: the first of at most one piece, the second of at most
\* MaxPieces pieces, so that it can hold several records.
FilesInputs ==
    { << Flatten(ps), Flatten(qs) >> :
          ps \in UNION { [1..k -> Pieces] : k \in 0..1 },
          qs \in UNION { [1..k -> Pieces] : k \in 0..MaxPieces } }

FilesInit ==
    InitWith({MaxThreads}, {<< >>}, {"dedup"}, {<< >>}, FilesInputs,
             {ScalarBuild})

SpecFiles == FilesInit /\ [][SplitterNext]_vars

\* C39: with several input files, every Job's file_name is the name of the
\* input file its record was read from, for every interleaving of the main
\* thread, which resets g_current_file_idx in start_splitter after it has
\* spawned the thread, with the splitter thread, which reads and advances
\* the index.  The code breaks it: when the splitter has gone on to a later
\* file before the reset, the Jobs read from that file after the reset
\* carry the name of the first file.
C39_JobNamesItsFile ==
    \A i \in 1..Len(enqueued) :
        returned[i].kind = "record" =>
            enqueued[i].file_name = returned[i].file_idx

====
